---------------------------- MODULE Spec2Model ----------------------------
(***************************************************************************)
(* A model of pyLights' gateway protocol engine                            *)
(* (src/script.module.pylights/lib/pylights.py): the serial reader         *)
(* (SerialRxThread.run / reset), the synchronous command primitive         *)
(* (plm.send_msg and the wrappers sendStdMessage / sendExtMessage /        *)
(* writeLinkRecord), the three queues (send_q, recv_q, async_q) and the    *)
(* gateway at the other end of the serial line.                            *)
(*                                                                         *)
(* Granularity.  The reader takes one step per s.read(1): the byte (or the *)
(* read timeout) and everything run() does with it.  A caller takes one    *)
(* step per blocking point of send_msg: the queueing and the write, each   *)
(* recv_q.get, the checks on the echo, each poll of the 'Invalid echo'     *)
(* wait loop.  Queue.get timeouts and the serial read timeout are taken    *)
(* when the queue (the line) is empty: the model has no clock, so a frame  *)
(* may arrive after the timeout that waited for it.                        *)
(***************************************************************************)
EXTENDS Integers, Sequences, FiniteSets, TLC

(* ------------------------------------------------------------------ *)
(* Bounds of the model                                                  *)
(* ------------------------------------------------------------------ *)
MaxCalls == 2
MaxUnsol == 1
MaxStray == 2

(* ------------------------------------------------------------------ *)
(* Protocol constants                                                   *)
(* ------------------------------------------------------------------ *)
START == 2
ACK == 6
NAK == 21
insteonRecv == 80
insteonExtRecv == 81
x10Recv == 82
plmInfo == 96
insteonSend == 98
LED_on == 109
cmdON == 17
cmdOFF == 19
stopChange == 24
statusRequest == 25
EchoTimeoutTries == 50
ResetLen == 11

AddrA == <<66, 34, 184>>
AddrB == <<66, 32, 248>>
PlmAddr == <<26, 43, 60>>

Min(a, b) == IF a < b THEN a ELSE b

\* Python's s[i:j] on a list (0-based, half open, clamped to the list).
PySlice(s, i, j) == SubSeq(s, i + 1, Min(j, Len(s)))

\* Python's x & mask for a single-bit mask (a power of two).
BitSet(x, mask) == (x \div mask) % 2 = 1

\* flags & 0xC0
BroadcastBits(flags) == (flags \div 64) % 4

\* flags & 0xEF and flags | 0x10
ClearExt(flags) == IF BitSet(flags, 16) THEN flags - 16 ELSE flags
SetExt(flags) == IF BitSet(flags, 16) THEN flags ELSE flags + 16

(* ------------------------------------------------------------------ *)
(* SerialPacket and the reader's length table                           *)
(* ------------------------------------------------------------------ *)
\* SerialPacket(msg, recv_len); None is carried by the two flags.  id is
\* not in the program: it names the call that queued the packet (0 for a
\* frame the reader queued).
SerialPacket(m, hasM, l, hasL, id) ==
  [msg |-> m, hasMsg |-> hasM, recv_len |-> l, hasLen |-> hasL, id |-> id]

FramePacket(d) == SerialPacket(d, TRUE, 0, TRUE, 0)
EchoExpect(m, id) == SerialPacket(<<>>, FALSE, Len(m) + 1, TRUE, id)
RespExpect(m, id) == SerialPacket(m, TRUE, 0, FALSE, id)
NoEchoExpect(l, id) == SerialPacket(<<>>, FALSE, l, TRUE, id)

TableTypes == {80, 81, 82, 84, 83, 87, 96, 98, 99, 105, 106}

response_len(t) ==
  CASE t = 80 -> 11
    [] t = 81 -> 25
    [] t = 82 -> 4
    [] t = 84 -> 3
    [] t = 83 -> 10
    [] t = 87 -> 10
    [] t = 96 -> 9
    [] t = 98 -> 9
    [] t = 99 -> 5
    [] t = 105 -> 3
    [] t = 106 -> 3
    [] OTHER -> 0

VARIABLES
  wire,            \* bytes the gateway has sent and s.read has not returned yet
  gwIn,            \* messages written to the gateway that it has not answered
  owed,            \* acknowledged direct messages the device has not answered
  unsol,           \* number of unsolicited emissions so far
  data,            \* SerialRxThread.data
  first_timeout,   \* SerialRxThread.first_timeout
  silent,          \* reads in a row that yielded nothing with data buffered
  expected_len,    \* SerialRxThread.expected_len
  sp,              \* run()'s local sp: [bound, pkt]
  extra_bytes,     \* run()'s local extra_bytes
  extra_bytes_flag,\* run()'s local extra_bytes_flag
  lastExtra,       \* the last 'Extra byte(s)' report
  num_resets,      \* SerialRxThread.num_resets
  send_q, recv_q, async_q,
  pc, message, resp_len, no_echo, msg_q, nr, tries, ret,
  calls,           \* number of send_msg calls so far
  rcount,          \* resets between the context's call and its return
  did,             \* what the call in flight has done: [reset, waited]
  callid,          \* the number of the context's call
  via,             \* the method that called send_msg
  routed,          \* how the last completed frame was routed
  follow,          \* the call that follows a timeout: "armed" by the timeout,
                   \* "run" while it runs, "stuck" if it timed out although
                   \* the gateway had answered, "none" otherwise
  input,           \* the byte stream of the reassembly specification
  stdcall,         \* a sendStdMessage call: its arguments and what it did
  rst,             \* reset() invocations in progress, per thread
  ee,              \* a call of the EEPROM surface: arguments, locals, position
  dev,             \* the device: its link database and the frames it owes
  lt,              \* a getLinkTable call: arguments, locals, position
  del,             \* a deleteLinkRecord call: arguments, locals, position
  events,          \* the LightingEvent objects created so far
  timer_threads,   \* plm.timer_threads: the Timer objects, in creation order
  now,             \* the clock, in seconds (0 is a local midnight)
  closer,          \* a close() call: the port it closes and its position
  sched,           \* the last call to the scheduler surface and its result
  invoked,         \* the callbacks and scheduled actions invoked so far
  async_callbacks, \* plm.async_callbacks
  disp,            \* AsyncEventThread: run()'s locals, whether it is alive
  lvl,             \* a setLevel call: arguments, locals, position
  registry         \* the device file: whether there is one, the levels in it

\* The state of the protocol engine.
coreVars == <<wire, gwIn, owed, unsol, data, first_timeout, silent, expected_len, sp,
              extra_bytes, extra_bytes_flag, lastExtra, num_resets,
              send_q, recv_q, async_q,
              pc, message, resp_len, no_echo, msg_q, nr, tries, ret,
              calls, rcount, did, callid, via, routed, follow, input>>

\* The state of the methods built on it.
\* The scheduler, the listeners and the event dispatcher.
svcVars == <<events, timer_threads, now, closer, sched, invoked,
             async_callbacks, disp, lvl, registry>>

appVars == <<stdcall, rst, ee, dev, lt, del, svcVars>>

vars == <<coreVars, appVars>>

gwVars == <<gwIn, owed, unsol>>
rxVars == <<data, first_timeout, silent, expected_len, sp, extra_bytes,
            extra_bytes_flag, lastExtra>>
callVars == <<pc, message, resp_len, no_echo, msg_q, nr, tries, ret,
              calls, did, callid, via>>

Ctx == {"host", "timer"}

NoPacket == SerialPacket(<<>>, FALSE, 0, FALSE, 0)
Unbound == [bound |-> FALSE, pkt |-> NoPacket]
Bound(p) == [bound |-> TRUE, pkt |-> p]

\* routed: the frame the reader's last step completed, the state of sp it
\* was routed with and the lengths of the two queues before it was routed.
NoRoute == [valid |-> FALSE, frame |-> <<>>, pend |-> "unbound",
            target |-> <<>>, nRecv |-> 0, nAsync |-> 0]

NoRet == [kind |-> "none", msg |-> <<>>, err |-> ""]
RetList(m) == [kind |-> "list", msg |-> m, err |-> ""]
RetErr(e) == [kind |-> "err", msg |-> <<>>, err |-> e]

NoDid == [reset |-> FALSE, waited |-> FALSE]


(* ------------------------------------------------------------------ *)
(* SerialRxThread.reset                                                 *)
(* ------------------------------------------------------------------ *)
\* A reset that leaves the queues as they are.
KeptQueue(q) == q

\* What reset() leaves in the three queues (queue.clear() on each).
ClearedQueue(q) == <<>>

\* reset(): clears the partial frame, the three queues and the serial
\* buffers and counts the reset.  run()'s local sp is not touched.
Reset ==
  /\ data' = <<>>
  /\ first_timeout' = TRUE
  /\ silent' = 0
  /\ expected_len' = ResetLen
  /\ send_q' = ClearedQueue(send_q)
  /\ recv_q' = ClearedQueue(recv_q)
  /\ async_q' = ClearedQueue(async_q)
  /\ wire' = <<>>
  /\ num_resets' = num_resets + 1
  /\ rcount' = [c \in DOMAIN rcount |->
                  IF pc[c] \in {"idle", "done"} THEN rcount[c]
                  ELSE rcount[c] + 1]

(* ------------------------------------------------------------------ *)
(* SerialRxThread.run: one byte                                         *)
(* ------------------------------------------------------------------ *)
IsDirectType(d) == d[2] = insteonRecv \/ d[2] = insteonExtRecv

\* A router that compares the first address byte only.
AddrMatchFirstByte(m, d) == PySlice(m, 2, 3) = PySlice(d, 2, 3)

\* The address comparison of the router: sp.msg[2:5] == self.data[2:5].
AddrMatch(m, d) == PySlice(m, 2, 5) = PySlice(d, 2, 5)

\* The try block at the end of a frame: where the frame goes and whether sp
\* is still bound afterwards.  An unbound sp raises UnboundLocalError (at
\* sp.msg for a direct frame, at del(sp) otherwise, after the put on
\* recv_q); sp.msg = None raises TypeError; the handler puts the frame on
\* async_q.
Route(s, d) ==
  IF IsDirectType(d)
  THEN IF ~s.bound \/ ~s.pkt.hasMsg
       THEN [toRecv |-> FALSE, toAsync |-> TRUE, sp |-> s]
       ELSE IF AddrMatch(s.pkt.msg, d)
            THEN [toRecv |-> TRUE, toAsync |-> FALSE, sp |-> Unbound]
            ELSE [toRecv |-> FALSE, toAsync |-> TRUE, sp |-> Unbound]
  ELSE IF ~s.bound
       THEN [toRecv |-> TRUE, toAsync |-> TRUE, sp |-> s]
       ELSE [toRecv |-> TRUE, toAsync |-> FALSE, sp |-> Unbound]

Pend(s) == IF ~s.bound THEN "unbound"
           ELSE IF s.pkt.hasMsg THEN "msg" ELSE "nomsg"

\* (Variant: a type that is not in the table gets the length a reset sets.)
NextLenUnknownDefault(d, popped, s, e) ==
  IF Len(d) = 6 /\ d[2] = insteonSend
  THEN IF BitSet(d[6], 16) THEN 23 ELSE 9
  ELSE IF Len(d) = 2
       THEN IF d[2] \in TableTypes THEN response_len(d[2]) ELSE ResetLen
       ELSE IF Len(d) = 1 /\ d[1] = START /\ popped /\ s.pkt.hasLen
            THEN s.pkt.recv_len
            ELSE e

\* (Variant: the length of a popped expectation is kept when the type byte
\* arrives.)
NextLenExpectationWins(d, popped, s, e) ==
  IF Len(d) = 6 /\ d[2] = insteonSend
  THEN IF BitSet(d[6], 16) THEN 23 ELSE 9
  ELSE IF Len(d) = 2
       THEN IF d[2] \in TableTypes /\ ~(s.bound /\ s.pkt.hasLen)
            THEN response_len(d[2]) ELSE e
       ELSE IF Len(d) = 1 /\ d[1] = START /\ popped /\ s.pkt.hasLen
            THEN s.pkt.recv_len
            ELSE e

\* A reader that takes the length of a 0x62 frame from the table alone.
NextLenTableOnly(d, popped, s, e) ==
  IF Len(d) = 2
  THEN IF d[2] \in TableTypes THEN response_len(d[2]) ELSE e
  ELSE IF Len(d) = 1 /\ d[1] = START /\ popped /\ s.pkt.hasLen
       THEN s.pkt.recv_len
       ELSE e

\* The length run() expects after appending a byte: d is the buffer with the
\* byte appended, s the packet popped at the start marker (if any), e the
\* length expected so far.
NextLen(d, popped, s, e) ==
  IF Len(d) = 6 /\ d[2] = insteonSend
  THEN IF BitSet(d[6], 16) THEN 23 ELSE 9
  ELSE IF Len(d) = 2
       THEN IF d[2] \in TableTypes THEN response_len(d[2]) ELSE e
       ELSE IF Len(d) = 1 /\ d[1] = START /\ popped /\ s.pkt.hasLen
            THEN s.pkt.recv_len
            ELSE e

FrameDone(d, e) == Len(d) >= e

\* One s.read(1) that returned byte b, on the reader's state q (the fields
\* of run() and the three queues): lines 1630-1686.
RxByte(q, b) ==
  LET d1 == Append(q.data, b)
      first == Len(d1) = 1
      stray == first /\ b /= START
      popped == first /\ ~stray /\ q.send_q /= <<>>
      s1 == IF popped THEN Bound(Head(q.send_q)) ELSE q.sp
      e1 == NextLen(d1, popped, s1, q.expected_len)
      d2 == IF stray THEN <<>> ELSE d1
      done == FrameDone(d2, e1)
      r == Route(s1, d2)
  IN [data |-> IF done THEN <<>> ELSE d2,
      expected_len |-> e1,
      sp |-> IF done THEN r.sp ELSE s1,
      send_q |-> IF popped THEN Tail(q.send_q) ELSE q.send_q,
      extra_bytes_flag |-> IF stray THEN TRUE
                           ELSE IF first THEN FALSE ELSE q.extra_bytes_flag,
      extra_bytes |-> IF stray THEN Append(q.extra_bytes, b)
                      ELSE IF first /\ q.extra_bytes_flag THEN <<>>
                      ELSE q.extra_bytes,
      lastExtra |-> IF first /\ ~stray /\ q.extra_bytes_flag
                    THEN q.extra_bytes ELSE q.lastExtra,
      recv_q |-> IF done /\ r.toRecv
                 THEN Append(q.recv_q, FramePacket(d2)) ELSE q.recv_q,
      async_q |-> IF done /\ r.toAsync
                  THEN Append(q.async_q, FramePacket(d2)) ELSE q.async_q,
      routed |-> IF done
                 THEN [valid |-> TRUE, frame |-> d2, pend |-> Pend(s1),
                       target |-> PySlice(s1.pkt.msg, 2, 5),
                       nRecv |-> Len(q.recv_q), nAsync |-> Len(q.async_q)]
                 ELSE q.routed,
      wire |-> Tail(q.wire)]

\* The reads that follow the second byte of a frame, up to the end of the
\* frame or of the bytes on the line: nothing another thread does between
\* two of them changes what they do.
RECURSIVE RxRest(_)
RxRest(q) ==
  IF q.data = <<>> \/ Len(q.data) < 2 \/ q.wire = <<>> THEN q
  ELSE RxRest(RxByte(q, Head(q.wire)))

RxNow == [data |-> data, expected_len |-> expected_len, sp |-> sp,
          send_q |-> send_q, extra_bytes_flag |-> extra_bytes_flag,
          extra_bytes |-> extra_bytes, lastExtra |-> lastExtra,
          recv_q |-> recv_q, async_q |-> async_q, routed |-> NoRoute,
          wire |-> wire]

RxRead ==
  /\ wire /= <<>>
  /\ LET q == RxRest(RxByte(RxNow, Head(wire)))
     IN /\ wire' = q.wire
        /\ data' = q.data
        /\ expected_len' = q.expected_len
        /\ sp' = q.sp
        /\ send_q' = q.send_q
        /\ extra_bytes_flag' = q.extra_bytes_flag
        /\ extra_bytes' = q.extra_bytes
        /\ lastExtra' = q.lastExtra
        /\ recv_q' = q.recv_q
        /\ async_q' = q.async_q
        /\ routed' = q.routed
  /\ first_timeout' = FALSE
  /\ silent' = 0
  /\ UNCHANGED <<gwVars, num_resets, rcount, callVars, follow, input, appVars>>

\* s.read(1) returned nothing while a partial frame is buffered.
RxSilent ==
  /\ wire = <<>>
  /\ data /= <<>>
  /\ IF first_timeout
     THEN /\ first_timeout' = FALSE
          /\ silent' = silent + 1
          /\ UNCHANGED <<data, expected_len, send_q, recv_q, async_q, wire,
                         num_resets, rcount>>
     ELSE Reset
  /\ routed' = NoRoute
  /\ UNCHANGED <<gwVars, sp, extra_bytes, extra_bytes_flag, lastExtra,
                 callVars, follow, input, appVars>>

(* ------------------------------------------------------------------ *)
(* The commands                                                         *)
(* ------------------------------------------------------------------ *)
idReq == 16

\* A sendStdMessage that looks at the command before the flags.
StdResponseLenCmdFirst(cmd1, flags) ==
  IF cmd1 = idReq THEN 22
  ELSE IF BroadcastBits(flags) /= 0 THEN 0 ELSE 11

\* A sendStdMessage that knows no identification request.
StdResponseLenNoId(cmd1, flags) ==
  IF BroadcastBits(flags) /= 0 THEN 0 ELSE 11

\* sendStdMessage's expected response length.
StdResponseLen(cmd1, flags) ==
  IF BroadcastBits(flags) /= 0 THEN 0
  ELSE IF cmd1 = idReq THEN 22 ELSE 11

\* sendStdMessage(address, cmd1, cmd2, flags): the arguments of its send_msg.
sendStdMessage(address, cmd1, cmd2, flags) ==
  [msg |-> <<START, insteonSend>> \o address \o <<ClearExt(flags), cmd1, cmd2>>,
   rl |-> StdResponseLen(cmd1, flags), ne |-> FALSE, via |-> "sendStdMessage"]

\* A raw send_msg of a gateway command without payload (plm.messages).
sendRaw(type) ==
  [msg |-> <<START, type>>, rl |-> 0, ne |-> FALSE, via |-> "send_msg"]

Zeros(n) == [i \in 1..n |-> 0]

\* sendExtMessage(address, cmd1, data, cmd2, flags) with 14 bytes of data d:
\* the arguments of its send_msg.
sendExtMessage(address, cmd1, d, cmd2, flags) ==
  [msg |-> <<START, insteonSend>> \o address \o <<SetExt(flags), cmd1, cmd2>>
             \o d,
   rl |-> 11, ne |-> FALSE, via |-> "sendExtMessage"]

\* What sendExtMessage returns when send_msg has returned r (lines 446-449).
sendExtResult(r) == "OK"

\* getLinkTable's request for all records of the link database.
ReadLinks(address) == sendExtMessage(address, 47, Zeros(14), 0, 31)

\* What each context sends: the host script's setLevel(addr, 128, False),
\* a gateway command and a read of the link table; the timer task's status
\* query.
CallsOf(c) ==
  IF c = "host"
  THEN {sendStdMessage(AddrA, cmdON, 128, 15), sendRaw(LED_on),
        ReadLinks(AddrA)}
  ELSE {sendStdMessage(AddrB, statusRequest, 0, 15)}

(* ------------------------------------------------------------------ *)
(* plm.send_msg                                                         *)
(* ------------------------------------------------------------------ *)
Idle(c) == pc[c] \in {"idle", "done"}

\* The expectations send_msg queues before it writes.
Expectations(m, rl, ne, id) ==
  IF ne THEN <<NoEchoExpect(rl, id)>>
  ELSE IF rl > 0 THEN <<EchoExpect(m, id), RespExpect(m, id)>>
       ELSE <<EchoExpect(m, id)>>

CallCore(c, a) ==
  /\ Idle(c)
  /\ calls < MaxCalls
  /\ send_q' = send_q \o Expectations(a.msg, a.rl, a.ne, calls + 1)
  /\ gwIn' = Append(gwIn, [msg |-> a.msg, id |-> calls + 1])
  /\ calls' = calls + 1
  /\ pc' = [pc EXCEPT ![c] = "echo"]
  /\ message' = [message EXCEPT ![c] = a.msg]
  /\ resp_len' = [resp_len EXCEPT ![c] = a.rl]
  /\ no_echo' = [no_echo EXCEPT ![c] = a.ne]
  /\ msg_q' = [msg_q EXCEPT ![c] = <<>>]
  /\ ret' = [ret EXCEPT ![c] = NoRet]
  /\ rcount' = [rcount EXCEPT ![c] = 0]
  /\ did' = [did EXCEPT ![c] = NoDid]
  /\ callid' = [callid EXCEPT ![c] = calls + 1]
  /\ via' = [via EXCEPT ![c] = a.via]
  /\ follow' = IF follow = "armed" THEN "run"
               ELSE IF follow = "stuck" THEN "stuck" ELSE "none"
  /\ routed' = NoRoute
  /\ UNCHANGED <<wire, owed, unsol, rxVars, num_resets, recv_q, async_q,
                 nr, tries, input>>

\* send_msg is called by a method that keeps no state of its own.
Call(c, a) ==
  /\ CallCore(c, a)
  /\ UNCHANGED appVars

\* The gateway has answered everything it was asked and the reader has
\* read all of it.
Answered == gwIn = <<>> /\ owed = <<>> /\ wire = <<>>

\* send_msg returns r; its locals are gone.
Return(c, r) ==
  /\ pc' = [pc EXCEPT ![c] = "done"]
  /\ ret' = [ret EXCEPT ![c] = r]
  /\ msg_q' = [msg_q EXCEPT ![c] = <<>>]
  /\ nr' = [nr EXCEPT ![c] = 0]
  /\ tries' = [tries EXCEPT ![c] = 0]

\* self.serial_rx.reset(...) called by send_msg.
CallerReset(c) ==
  /\ Reset
  /\ did' = [did EXCEPT ![c].reset = TRUE]

NoReset ==
  UNCHANGED <<wire, data, first_timeout, silent, expected_len, num_resets, rcount,
              send_q, recv_q, async_q, did>>

\* What no step of send_msg after the call changes.
CallFrame ==
  /\ routed' = NoRoute
  /\ UNCHANGED <<gwVars, sp, extra_bytes, extra_bytes_flag, lastExtra,
                 message, resp_len, no_echo, calls, callid, via, input, appVars>>

\* A Queue.Empty of recv_q.get: reset and return the error.
TimeoutReturn(c, e) ==
  /\ recv_q = <<>>
  /\ CallerReset(c)
  /\ Return(c, RetErr(e))
  /\ follow' = IF follow = "stuck" \/ (follow = "run" /\ Answered)
               THEN "stuck" ELSE "armed"
  /\ CallFrame

\* msg_q = self.recv_q.get(True, 1)
EchoGet(c) ==
  /\ pc[c] = "echo"
  /\ recv_q /= <<>>
  /\ msg_q' = [msg_q EXCEPT ![c] = Head(recv_q).msg]
  /\ recv_q' = Tail(recv_q)
  /\ pc' = [pc EXCEPT ![c] = "check"]
  /\ UNCHANGED <<wire, data, first_timeout, silent, expected_len, num_resets, rcount,
                 send_q, async_q, did, nr, tries, ret, follow>>
  /\ CallFrame

EchoTimeout(c) ==
  /\ pc[c] = "echo"
  /\ TimeoutReturn(c, "Timeout waiting for echo")

\* msg_q.msg[0:len(message)] != message
EchoDiffers(m, e) == PySlice(e, 0, Len(m)) /= m

\* len(msg_q.msg) != (len(message)+1)
LengthDiffers(m, e) == Len(e) /= Len(m) + 1

\* The NACK branch: if not send_q.empty(): send_q.get()
NackCancel(q) == IF q /= <<>> THEN Tail(q) ELSE q

\* Whether the non-ACK, non-NACK terminator branch resets (line 501).
ResetOnNoAck == TRUE

\* Whether the length mismatch branch resets (lines 489-492: it does not).
ResetOnLength == FALSE

\* Lines 477-502: what send_msg does with the frame it took as echo.
SendCheck(c) ==
  /\ pc[c] = "check"
  /\ LET e == msg_q[c]
         m == message[c]
     IN CASE no_echo[c] ->
               /\ Return(c, RetList(e))
               /\ NoReset
          [] ~no_echo[c] /\ EchoDiffers(m, e) ->
               /\ nr' = [nr EXCEPT ![c] = num_resets + 1]
               /\ tries' = [tries EXCEPT ![c] = 0]
               /\ pc' = [pc EXCEPT ![c] = "wait"]
               /\ UNCHANGED <<ret, msg_q>>
               /\ NoReset
          [] ~no_echo[c] /\ ~EchoDiffers(m, e) /\ LengthDiffers(m, e) ->
               /\ Return(c, RetErr("Invalid message length"))
               /\ IF ResetOnLength THEN CallerReset(c) ELSE NoReset
          [] ~no_echo[c] /\ ~EchoDiffers(m, e) /\ ~LengthDiffers(m, e)
               /\ resp_len[c] = 0 ->
               /\ Return(c, RetList(e))
               /\ NoReset
          [] ~no_echo[c] /\ ~EchoDiffers(m, e) /\ ~LengthDiffers(m, e)
               /\ resp_len[c] /= 0 /\ e[Len(e)] = NAK ->
               /\ send_q' = NackCancel(send_q)
               /\ Return(c, RetErr("NACK"))
               /\ UNCHANGED <<wire, data, first_timeout, silent, expected_len,
                              num_resets, rcount, recv_q, async_q, did>>
          [] ~no_echo[c] /\ ~EchoDiffers(m, e) /\ ~LengthDiffers(m, e)
               /\ resp_len[c] /= 0 /\ e[Len(e)] \notin {ACK, NAK} ->
               /\ Return(c, RetErr("No ACK received!"))
               /\ IF ResetOnNoAck THEN CallerReset(c) ELSE NoReset
          [] ~no_echo[c] /\ ~EchoDiffers(m, e) /\ ~LengthDiffers(m, e)
               /\ resp_len[c] /= 0 /\ e[Len(e)] = ACK ->
               /\ pc' = [pc EXCEPT ![c] = "resp"]
               /\ did' = [did EXCEPT ![c].waited = TRUE]
               /\ msg_q' = [msg_q EXCEPT ![c] = <<>>]
               /\ UNCHANGED <<wire, data, first_timeout, silent, expected_len,
                              num_resets, rcount, send_q, recv_q, async_q,
                              nr, tries, ret>>
  /\ follow' = follow
  /\ CallFrame

\* The loop condition of the 'Invalid echo' wait (line 484).
KeepWaiting(resets, want, t) == resets /= want /\ t < EchoTimeoutTries

\* Whether send_msg resets after the wait (line 487).
ResetAfterWait(t) == t = EchoTimeoutTries

\* The wait loop sleeps: sleep(0.1); tries += 1 while the condition holds.
\* The iterations no other thread's step separates are taken together, so
\* the count runs out in one step.
Sleep(c) ==
  /\ pc[c] = "wait"
  /\ KeepWaiting(num_resets, nr[c], tries[c])
  /\ tries' = [tries EXCEPT ![c] = EchoTimeoutTries]
  /\ UNCHANGED <<pc, ret, msg_q, nr, follow>>
  /\ NoReset
  /\ CallFrame

\* The loop condition fails: reset if the count ran out, return the error.
\* (msg_q keeps the frame that was taken as echo: what the log shows.)
WaitEnd(c) ==
  /\ pc[c] = "wait"
  /\ ~KeepWaiting(num_resets, nr[c], tries[c])
  /\ IF ResetAfterWait(tries[c]) THEN CallerReset(c) ELSE NoReset
  /\ pc' = [pc EXCEPT ![c] = "done"]
  /\ ret' = [ret EXCEPT ![c] = RetErr("Invalid echo")]
  /\ nr' = [nr EXCEPT ![c] = 0]
  /\ tries' = [tries EXCEPT ![c] = 0]
  /\ msg_q' = msg_q
  /\ follow' = follow
  /\ CallFrame

\* msg_q = self.recv_q.get(True, 8)
RespGet(c) ==
  /\ pc[c] = "resp"
  /\ recv_q /= <<>>
  /\ recv_q' = Tail(recv_q)
  /\ Return(c, RetList(Head(recv_q).msg))
  /\ UNCHANGED <<wire, data, first_timeout, silent, expected_len, num_resets, rcount,
                 send_q, async_q, did, follow>>
  /\ CallFrame

RespTimeout(c) ==
  /\ pc[c] = "resp"
  /\ TimeoutReturn(c, "Timeout waiting for response")

(* ------------------------------------------------------------------ *)
(* The gateway and the devices behind it                                *)
(*                                                                      *)
(* The line is half duplex and the gateway sends one frame after the    *)
(* other: it puts a frame on the line when the reader has taken the     *)
(* bytes of the one before.                                             *)
(* ------------------------------------------------------------------ *)
\* The echo of a written message: the message and a terminator byte.
Echo(m, term) == Append(m, term)

\* The message with its last byte changed.
Garbled(m) == [m EXCEPT ![Len(m)] = (@ + 1) % 256]

\* A direct (non-broadcast) device command: the device answers it.
IsDirectCmd(m) ==
  Len(m) >= 8 /\ m[2] = insteonSend /\ BroadcastBits(m[6]) = 0

\* The device's acknowledgement of a direct command: a standard frame from
\* the device to the gateway carrying the command bytes.
DeviceResponse(m) ==
  <<START, insteonRecv>> \o PySlice(m, 2, 5) \o PlmAddr \o <<47, m[7], m[8]>>

\* A group broadcast of a device (button 1 pressed: ON).
BroadcastFrom(a) == <<START, insteonRecv>> \o a \o <<0, 0, 1, 203, cmdON, 0>>

X10Frame == <<START, x10Recv, 102, 0>>

\* A frame cut short on the line.
Truncated == <<START, insteonRecv, 66>>

UnsolFrames == {BroadcastFrom(AddrA), BroadcastFrom(AddrB), X10Frame, Truncated}

\* "lost": the gateway does not answer the message at all.
AnswerKinds == {"ack", "nack", "bad", "garbled", "lost"}

AnswerBytes(m, kind) ==
  CASE kind = "ack" -> Echo(m, ACK)
    [] kind = "nack" -> Echo(m, NAK)
    [] kind = "bad" -> Echo(m, 0)
    [] kind = "garbled" -> Echo(Garbled(m), ACK)
    [] kind = "lost" -> <<>>

\* Whether the gateway still counts as answering the call that follows a
\* timeout correctly: it answers that call's message properly and lets
\* nothing of an earlier message reach the line.
KeepsFollow(id, proper, lost) ==
  IF follow = "run" /\ id = calls THEN proper ELSE lost

\* The gateway answers the oldest message written to it.
GwAnswer(kind) ==
  /\ wire = <<>>
  /\ gwIn /= <<>>
  /\ LET h == Head(gwIn)
     IN /\ wire' = wire \o AnswerBytes(h.msg, kind)
        /\ owed' = IF kind = "ack" /\ IsDirectCmd(h.msg)
                   THEN Append(owed, h) ELSE owed
        /\ follow' = IF follow \in {"armed", "run"}
                        /\ ~KeepsFollow(h.id, kind = "ack", kind = "lost")
                     THEN "none" ELSE follow
  /\ gwIn' = Tail(gwIn)
  /\ routed' = NoRoute
  /\ UNCHANGED <<unsol, rxVars, num_resets, rcount, send_q, recv_q, async_q,
                 callVars, input, appVars>>

\* The device answers the oldest acknowledged command.
\* (lost: the device does not answer it.)
GwRespond(lost) ==
  /\ wire = <<>>
  /\ owed /= <<>>
  /\ wire' = IF lost THEN wire ELSE wire \o DeviceResponse(Head(owed).msg)
  /\ owed' = Tail(owed)
  /\ follow' = IF follow \in {"armed", "run"}
                  /\ ~KeepsFollow(Head(owed).id, ~lost, lost)
               THEN "none" ELSE follow
  /\ routed' = NoRoute
  /\ UNCHANGED <<gwIn, unsol, rxVars, num_resets, rcount, send_q, recv_q,
                 async_q, callVars, input, appVars>>

\* A device event, an X10 frame or line noise arrives unasked.
GwUnsolicited(f) ==
  /\ wire = <<>>
  /\ unsol < MaxUnsol
  /\ unsol' = unsol + 1
  /\ wire' = wire \o f
  /\ follow' = IF follow \in {"armed", "run"} THEN "none" ELSE follow
  /\ routed' = NoRoute
  /\ UNCHANGED <<gwIn, owed, rxVars, num_resets, rcount, send_q, recv_q,
                 async_q, callVars, input, appVars>>

(* ------------------------------------------------------------------ *)
(* Specifications                                                       *)
(* ------------------------------------------------------------------ *)
NoInput == [stray |-> <<>>, frame |-> <<>>]

\* The state after plm.__init__: the reader has received the answer to
\* getPlmInfo (a 9-byte frame), so first_timeout is False, expected_len is
\* 9 and sp has been deleted.
InitReader ==
  /\ data = <<>>
  /\ first_timeout = FALSE
  /\ silent = 0
  /\ expected_len = response_len(plmInfo)
  /\ sp = Unbound
  /\ extra_bytes = <<>>
  /\ extra_bytes_flag = FALSE
  /\ lastExtra = <<>>
  /\ num_resets = 0

\* The reader right after a reset.
InitReaderReset ==
  /\ data = <<>>
  /\ first_timeout = TRUE
  /\ silent = 0
  /\ expected_len = ResetLen
  /\ sp = Unbound
  /\ extra_bytes = <<>>
  /\ extra_bytes_flag = FALSE
  /\ lastExtra = <<>>
  /\ num_resets = 1

\* No call has been made.
InitCallers ==
  /\ send_q = <<>>
  /\ pc = [c \in Ctx |-> "idle"]
  /\ message = [c \in Ctx |-> <<>>]
  /\ resp_len = [c \in Ctx |-> 0]
  /\ no_echo = [c \in Ctx |-> FALSE]
  /\ calls = 0
  /\ callid = [c \in Ctx |-> 0]
  /\ via = [c \in Ctx |-> ""]

InitRest ==
  /\ gwIn = <<>>
  /\ owed = <<>>
  /\ unsol = 0
  /\ recv_q = <<>>
  /\ async_q = <<>>
  /\ msg_q = [c \in Ctx |-> <<>>]
  /\ nr = [c \in Ctx |-> 0]
  /\ tries = [c \in Ctx |-> 0]
  /\ ret = [c \in Ctx |-> NoRet]
  /\ rcount = [c \in Ctx |-> 0]
  /\ did = [c \in Ctx |-> NoDid]
  /\ routed = NoRoute
  /\ follow = "none"

\* No sendStdMessage call is being followed.
NoStdCall == [address |-> <<>>, cmd1 |-> 0, cmd2 |-> 0, flags |-> 0,
              state |-> "none"]

NoDevice == [mem |-> <<>>, outside |-> <<>>, owes |-> <<>>, lost |-> FALSE]
NoLinkCall == [pc |-> "none"]

\* Idle port state of close(); no scheduler call yet; the dispatcher's
\* locals are unbound.
NoClose == [pc |-> "none", s |-> "open", i |-> 0, num_tries |-> 0]
NoSched == [op |-> "none", ret |-> "none", calls |-> 0, armed |-> 0,
            registered |-> 0]
NoLocals == [alive |-> TRUE, bound |-> {}, none |-> {}, from_addr |-> <<>>,
             btn |-> 0, flags |-> 0, cmd1 |-> 0, cmd2 |-> 0]

\* plm(device_cfg_filename=None): there is no device file.
NoFile == [file |-> FALSE, address |-> <<>>, devType |-> <<>>,
           respondsToBtn |-> <<>>, level |-> <<>>]

\* A device file that lists the device AddrA, at level 0.
OneDevice == [file |-> TRUE, address |-> <<AddrA>>, devType |-> <<"Dimmer">>,
              respondsToBtn |-> <<{}>>, level |-> <<0>>]

\* getIndexByAddress (lines 1400-1411): the place of the address in the
\* device file, 0 for None.
getIndexByAddress(reg, address) ==
  IF reg.file /\ \E i \in DOMAIN reg.address : reg.address[i] = address
  THEN CHOOSE i \in DOMAIN reg.address :
         /\ reg.address[i] = address
         /\ \A j \in 1..(i - 1) : reg.address[j] /= address
  ELSE 0

\* updateLevel(device, level), lines 392-397 and 1508-1513.
updateLevel(reg, address, level) ==
  IF reg.file /\ getIndexByAddress(reg, address) /= 0
  THEN [reg EXCEPT !.level[getIndexByAddress(reg, address)] = level]
  ELSE reg

\* Nothing is scheduled, nobody listens (plm.__init__, lines 191-195).
InitSvc ==
  /\ events = <<>>
  /\ timer_threads = <<>>
  /\ now = 0
  /\ closer = NoClose
  /\ sched = NoSched
  /\ invoked = <<>>
  /\ async_callbacks = <<>>
  /\ disp = NoLocals
  /\ lvl = NoLinkCall
  /\ registry = NoFile

\* No call of the EEPROM surface was made.
NoEE == [op |-> "none", at |-> "idle"]

\* The threads that call reset(): the reader (line 1700) and a caller of
\* send_msg (lines 474, 487, 494, 502).
ResetCtx == {"reader", "caller"}

\* No reset is in progress.  (at: the statement of reset() the thread is
\* at; n: the num_resets it has loaded; k: the invocations that have
\* returned; clean: whether each of them left data and the queues empty.)
NoResets == [c \in ResetCtx |-> [at |-> "idle", n |-> 0, k |-> 0,
                                  clean |-> TRUE]]

\* The methods built on the protocol engine have not been used.
InitApp ==
  /\ stdcall = NoStdCall /\ rst = NoResets /\ ee = NoEE
  /\ dev = NoDevice
  /\ lt = NoLinkCall
  /\ del = NoLinkCall
  /\ InitSvc

\* The protocol engine after plm.__init__.
InitCore ==
  /\ InitReader
  /\ InitCallers
  /\ InitRest
  /\ wire = <<>>
  /\ input = NoInput

Init ==
  /\ InitCore
  /\ InitApp

Step(c) ==
  \/ EchoGet(c)
  \/ EchoTimeout(c)
  \/ SendCheck(c)
  \/ Sleep(c)
  \/ WaitEnd(c)
  \/ RespGet(c)
  \/ RespTimeout(c)

Gateway ==
  \/ \E k \in AnswerKinds : GwAnswer(k)
  \/ \E lost \in BOOLEAN : GwRespond(lost)
  \/ \E f \in UnsolFrames : GwUnsolicited(f)

Reader ==
  \/ RxRead
  \/ RxSilent

\* Callers serialize command issuance: the host is the only caller.
Next ==
  \/ \E a \in CallsOf("host") : Call("host", a)
  \/ Step("host")
  \/ Gateway
  \/ Reader

Spec == Init /\ [][Next]_vars

\* The host and a timer task call without serialization; the gateway
\* answers every message properly and nothing arrives unasked.
NextConc ==
  \/ \E c \in Ctx : \E a \in CallsOf(c) : Call(c, a)
  \/ \E c \in Ctx : Step(c)
  \/ GwAnswer("ack")
  \/ GwRespond(FALSE)
  \/ Reader

SpecConc == Init /\ [][NextConc]_vars

(* ------------------------------------------------------------------ *)
(* sendStdMessage as a function of its arguments                        *)
(* ------------------------------------------------------------------ *)
\* address_to_list on a dotted address, given as the numbers between the
\* dots: the list, or None (ok = FALSE) unless there are three numbers in
\* 0..255.
address_to_list(a) ==
  IF Len(a) = 3 /\ \A i \in 1..Len(a) : a[i] \in 0..255
  THEN [ok |-> TRUE, list |-> a]
  ELSE [ok |-> FALSE, list |-> <<>>]

\* The arguments the specification calls sendStdMessage with.
StdAddresses == {AddrA, AddrB, <<66, 34>>, <<66, 34, 300>>}
StdCommands == {idReq, cmdON, 19, statusRequest}
StdPayloads == {0, 128, 255}
StdFlags == {0, 15, 31, 64, 79, 128, 143, 192, 207, 255}

InitStd ==
  /\ InitCore
  /\ dev = NoDevice /\ lt = NoLinkCall /\ del = NoLinkCall
  /\ rst = NoResets /\ ee = NoEE
  /\ InitSvc
  /\ \E a \in StdAddresses : \E c1 \in StdCommands :
       \E c2 \in StdPayloads : \E fl \in StdFlags :
         stdcall = [address |-> a, cmd1 |-> c1, cmd2 |-> c2, flags |-> fl,
                    state |-> "called"]

\* sendStdMessage(address, cmd1, cmd2, flags), lines 429-435: the length is
\* computed, then the address is checked, then send_msg is called (rl and
\* msg are what it is called with).
StdApply ==
  /\ stdcall.state = "called"
  /\ LET a == address_to_list(stdcall.address)
         rl == StdResponseLen(stdcall.cmd1, stdcall.flags)
     IN stdcall' =
          IF ~a.ok
          THEN [stdcall EXCEPT !.state = "Invalid address"] @@
               [computed |-> rl]
          ELSE [stdcall EXCEPT !.state = "send_msg"] @@
               [computed |-> rl,
                sent |-> sendStdMessage(a.list, stdcall.cmd1, stdcall.cmd2,
                                        stdcall.flags)]
  /\ UNCHANGED <<coreVars, rst, ee, dev, lt, del, svcVars>>

SpecStd == InitStd /\ [][StdApply]_vars

(* ------------------------------------------------------------------ *)
(* The link database: getLinkTable, writeLinkRecord, deleteLinkRecord   *)
(* and the device that holds the database                               *)
(* ------------------------------------------------------------------ *)
MaxLinks == 3
TopOfLinks == 4095
LinkSize == 8
LinkCmd == 47

ZeroRecord == Zeros(LinkSize)

\* Python's list with s[i:i+len(v)] = v (0-based), for a slice inside s.
PySetSlice(s, i, v) ==
  [k \in 1..Len(s) |-> IF k > i /\ k <= i + Len(v) THEN v[k - i] ELSE s[k]]

\* (addr & 0xFF00) >> 8 and addr & 0xFF
HighByte(addr) == (addr \div 256) % 256
LowByte(addr) == addr % 256

\* The memory address of a record: 0x0FFF - (record*0x08).
RecordAddr(record) == TopOfLinks - (record * LinkSize)

\* getLinkTable's 14 data bytes (lines 714-719): all records, or the one
\* record asked for.
ReadData(hasRecord, record) ==
  IF ~hasRecord THEN Zeros(14)
  ELSE PySetSlice(Zeros(14), 2,
                  <<HighByte(RecordAddr(record)), LowByte(RecordAddr(record)),
                    1>>)

\* writeLinkRecord's 14 data bytes (lines 752-758).
WriteData(record_data, record_num) ==
  PySetSlice(
    PySetSlice(Zeros(14), 1,
               <<2, HighByte(RecordAddr(record_num)),
                 LowByte(RecordAddr(record_num)), Len(record_data)>>),
    5, record_data)

\* The message of sendExtMessage(address, 0x2F, data).
LinkMessage(address, d) == sendExtMessage(address, LinkCmd, d, 0, 31).msg

\* The device's side.  The 14 data bytes of a message it receives:
DataOf(msg) == PySlice(msg, 8, 22)

\* The record index a memory address stands for; outside 0..MaxLinks the
\* address is not in the modelled part of the database.
IndexOf(hi, lo) ==
  LET a == hi * 256 + lo
  IN IF a <= TopOfLinks /\ (TopOfLinks - a) % LinkSize = 0
        /\ (TopOfLinks - a) \div LinkSize <= MaxLinks
     THEN (TopOfLinks - a) \div LinkSize
     ELSE -1

\* The extended frame that carries the record at index i to the gateway:
\* bytes 16..23 of the frame are the record.
LinkFrame(address, i, rec) ==
  <<START, insteonExtRecv>> \o address \o PlmAddr \o <<17, LinkCmd, 0>>
    \o <<0, 1, HighByte(RecordAddr(i)), LowByte(RecordAddr(i)), 0>>
    \o rec \o <<0>>

\* The records in use: those before the first record whose flag byte is 0.
RECURSIVE UsedFrom(_, _)
UsedFrom(mem, i) ==
  IF i > Len(mem) \/ mem[i][1] = 0 THEN <<>>
  ELSE <<mem[i]>> \o UsedFrom(mem, i + 1)
Used(mem) == UsedFrom(mem, 1)

\* The frames the device sends for a read request: the records in use and
\* the terminating record after them, or the one record asked for.
RECURSIVE FramesFrom(_, _, _)
FramesFrom(address, mem, i) ==
  IF i > Len(mem) THEN <<>>
  ELSE IF mem[i][1] = 0 THEN <<LinkFrame(address, i - 1, mem[i])>>
  ELSE <<LinkFrame(address, i - 1, mem[i])>> \o FramesFrom(address, mem, i + 1)

ReadAnswer(address, mem, d) ==
  IF d[5] = 0 THEN FramesFrom(address, mem, 1)
  ELSE LET i == IndexOf(d[3], d[4])
       IN IF i >= 0 THEN <<LinkFrame(address, i, mem[i + 1])>> ELSE <<>>

\* The device takes a database message: a read request makes it owe the
\* answering frames, a write request (data[1] = 2) stores the record.
DevReceive(dv, msg) ==
  LET d == DataOf(msg)
      i == IndexOf(d[3], d[4])
  IN IF d[2] = 2
     THEN IF i >= 0
          THEN [dv EXCEPT !.mem[i + 1] = PySlice(d, 5, 5 + d[5])]
          ELSE [dv EXCEPT !.outside = Append(@, <<d[3], d[4]>>)]
     ELSE [dv EXCEPT !.owes = ReadAnswer(PySlice(msg, 2, 5), dv.mem, d)]

\* getLinkTable(address, record): the call, not yet begun.
getLinkTable(address, hasRecord, record) ==
  [pc |-> "call", address |-> address, hasRecord |-> hasRecord,
   record |-> record, links |-> <<>>, d |-> <<>>]

\* Line 720: sendExtMessage(address, 0x2F, data).  Its transaction is taken
\* as one step that goes well (the device gets the request; echo and
\* acknowledgement are consumed); what it returns is not looked at.
LtRequest ==
  /\ lt.pc = "call"
  /\ dev' = DevReceive(dev, LinkMessage(lt.address,
                                        ReadData(lt.hasRecord, lt.record)))
  /\ lt' = [lt EXCEPT !.pc = "put"]
  /\ UNCHANGED <<coreVars, stdcall, rst, ee, del, svcVars>>

\* Line 726: self.send_q.put(SerialPacket([0,0]+to_addr, None))
LtPut ==
  /\ lt.pc = "put"
  /\ send_q' = Append(send_q, RespExpect(<<0, 0>> \o lt.address, 0))
  /\ lt' = [lt EXCEPT !.pc = "get"]
  /\ routed' = NoRoute
  /\ UNCHANGED <<wire, gwVars, rxVars, num_resets, rcount, recv_q, async_q,
                 callVars, follow, input, stdcall, rst, ee, dev, del, svcVars>>

\* A getLinkTable that takes the record one byte early.
LtProcessByteEarly(d, hasRecord) ==
  IF d = <<>> THEN [add |-> <<>>, clear |-> FALSE, done |-> FALSE]
  ELSE IF d[17] = 0 THEN [add |-> <<>>, clear |-> TRUE, done |-> TRUE]
  ELSE [add |-> <<PySlice(d, 15, 23)>>, clear |-> FALSE, done |-> hasRecord]

\* Lines 734-744 on the frame d (<<>>: d is unbound, UnboundLocalError):
\* what is appended to links, whether send_q is cleared, whether the loop
\* is done.
LtProcess(d, hasRecord) ==
  IF d = <<>> THEN [add |-> <<>>, clear |-> FALSE, done |-> FALSE]
  ELSE IF d[17] = 0 THEN [add |-> <<>>, clear |-> TRUE, done |-> TRUE]
  ELSE [add |-> <<PySlice(d, 16, 24)>>, clear |-> FALSE, done |-> hasRecord]

\* Lines 727-744 when recv_q.get returns a frame.
LtGet ==
  /\ lt.pc = "get"
  /\ recv_q /= <<>>
  /\ LET d == Head(recv_q).msg
         r == LtProcess(d, lt.hasRecord)
     IN /\ lt' = [lt EXCEPT !.d = d, !.links = @ \o r.add,
                            !.pc = IF r.done THEN "done" ELSE "put"]
        /\ send_q' = IF r.clear THEN <<>> ELSE send_q
  /\ recv_q' = Tail(recv_q)
  /\ routed' = NoRoute
  /\ UNCHANGED <<wire, gwVars, rxVars, num_resets, rcount, async_q,
                 callVars, follow, input, stdcall, rst, ee, dev, del, svcVars>>

\* Lines 727-744 when recv_q.get raises Queue.Empty after 8 seconds
\* (nothing is on its way any more): send_q is cleared, the loop is done,
\* and the frame of the iteration before, if any, is processed again.
LtTimeout ==
  /\ lt.pc = "get"
  /\ recv_q = <<>> /\ wire = <<>> /\ data = <<>> /\ dev.owes = <<>>
  /\ LET r == LtProcess(lt.d, lt.hasRecord)
     IN lt' = [lt EXCEPT !.links = @ \o r.add, !.pc = "done"]
  /\ send_q' = <<>>
  /\ routed' = NoRoute
  /\ UNCHANGED <<wire, gwVars, rxVars, num_resets, rcount, recv_q, async_q,
                 callVars, follow, input, stdcall, rst, ee, dev, del, svcVars>>

\* The device sends the next frame it owes.  The records are far apart
\* compared with the caller's loop: a frame starts when the caller waits
\* for it.
DevSend ==
  /\ lt.pc = "get"
  /\ send_q /= <<>>
  /\ wire = <<>> /\ data = <<>> /\ recv_q = <<>>
  /\ dev.owes /= <<>>
  /\ wire' = Head(dev.owes)
  /\ dev' = [dev EXCEPT !.owes = Tail(@)]
  /\ routed' = NoRoute
  /\ UNCHANGED <<gwVars, rxVars, num_resets, rcount, send_q, recv_q, async_q,
                 callVars, follow, input, stdcall, rst, ee, lt, del, svcVars>>

\* The device stops answering: the frames it still owes are never sent.
DevQuit ==
  /\ dev.owes /= <<>>
  /\ dev' = [dev EXCEPT !.owes = <<>>, !.lost = TRUE]
  /\ UNCHANGED <<coreVars, stdcall, rst, ee, lt, del, svcVars>>

\* writeLinkRecord(address, record_data, record_num): the message of its
\* sendExtMessage.
writeLinkRecord(address, record_data, record_num) ==
  LinkMessage(address, WriteData(record_data, record_num))

\* deleteLinkRecord(address, record): the call, not yet begun.  before is
\* not in the program: the database when the call began.
deleteLinkRecord(address, record) ==
  [pc |-> "call", address |-> address, record |-> record, t |-> <<>>,
   status |-> "", before |-> <<>>]

\* Line 1075: t = self.getLinkTable(address)
DelStart ==
  /\ del.pc = "call"
  /\ lt' = getLinkTable(del.address, FALSE, 0)
  /\ del' = [del EXCEPT !.pc = "table", !.before = dev.mem]
  /\ UNCHANGED <<coreVars, stdcall, rst, ee, dev, svcVars>>

\* A deleteLinkRecord that copies the last record whenever there is one.
CopiesLastAlways(t, record) == Len(t) > 1

\* Whether deleteLinkRecord copies the last record (lines 1078-1079).
CopiesLast(t, record) == record /= -1 /\ Len(t) > 1

\* Lines 1076-1081: getLinkTable has returned a list; the last record is
\* copied to the deleted position (writeLinkRecord, whose transaction is
\* taken as one step that goes well and which returns 'OK').
DelCopy ==
  /\ del.pc = "table"
  /\ lt.pc = "done"
  /\ LET t == lt.links
     IN /\ del' = [del EXCEPT !.t = t, !.status = "OK", !.pc = "zero"]
        /\ dev' = IF CopiesLast(t, del.record)
                  THEN DevReceive(dev, writeLinkRecord(del.address,
                                                       t[Len(t)], del.record))
                  ELSE dev
  /\ UNCHANGED <<coreVars, stdcall, rst, ee, lt, svcVars>>

\* Lines 1082-1086: the last record is zeroed.
DelZero ==
  /\ del.pc = "zero"
  /\ dev' = DevReceive(dev, writeLinkRecord(del.address, ZeroRecord,
                                            Len(del.t) - 1))
  /\ del' = [del EXCEPT !.status = sendExtResult(NoRet), !.pc = "done"]
  /\ UNCHANGED <<coreVars, stdcall, rst, ee, lt, svcVars>>

\* The link databases of the specification: n records in use, each with
\* one of two flag bytes, and zeroed records after them.
LinkFlags == {226, 162}
LinkRecord(i, fl) == <<fl, i, 17, 34, 51, 3, 31, 100 + i>>
Databases ==
  UNION {{[i \in 1..(MaxLinks + 1) |->
             IF i <= n THEN LinkRecord(i, fl[i]) ELSE ZeroRecord]
          : fl \in [1..n -> LinkFlags]} : n \in 0..MaxLinks}

InitLinks ==
  /\ InitCore
  /\ stdcall = NoStdCall /\ rst = NoResets /\ ee = NoEE
  /\ InitSvc
  /\ \E mem \in Databases : dev = [NoDevice EXCEPT !.mem = mem]
  /\ \/ del = NoLinkCall /\ lt = getLinkTable(AddrA, FALSE, 0)
     \/ del = NoLinkCall /\ \E r \in 0..MaxLinks :
                              lt = getLinkTable(AddrA, TRUE, r)
     \/ lt = NoLinkCall /\ \E r \in -1..MaxLinks :
                             del = deleteLinkRecord(AddrA, r)

NextLinks ==
  \/ DelStart
  \/ DelCopy
  \/ DelZero
  \/ LtRequest
  \/ LtPut
  \/ LtGet
  \/ LtTimeout
  \/ DevSend
  \/ DevQuit
  \/ RxRead

SpecLinks == InitLinks /\ [][NextLinks]_vars

(* ------------------------------------------------------------------ *)
(* Reassembly of one frame                                              *)
(* ------------------------------------------------------------------ *)
\* The total length of a frame of a table type whose flags byte is f.
TotalLen(t, f) ==
  IF t = insteonSend THEN (IF BitSet(f, 16) THEN 23 ELSE 9)
  ELSE response_len(t)

\* A well-formed frame of type t: the start marker, the type and the
\* payload bytes, all equal to f.
Frame(t, f) == <<START, t>> \o [i \in 1..(TotalLen(t, f) - 2) |-> f]

PayloadBytes == {0, START, 255}
StrayBytes == {0, 255}

RECURSIVE SeqsUpTo(_, _)
SeqsUpTo(S, n) ==
  IF n = 0 THEN {<<>>}
  ELSE LET shorter == SeqsUpTo(S, n - 1)
       IN shorter \cup {Append(q, b) : q \in shorter, b \in S}

\* The host is waiting for the echo of a: the state Call(host, a) leaves,
\* the gateway having taken the message.
InitInFlight(a) ==
  /\ send_q = Expectations(a.msg, a.rl, a.ne, 1)
  /\ pc = [c \in Ctx |-> IF c = "host" THEN "echo" ELSE "idle"]
  /\ message = [c \in Ctx |-> IF c = "host" THEN a.msg ELSE <<>>]
  /\ resp_len = [c \in Ctx |-> IF c = "host" THEN a.rl ELSE 0]
  /\ no_echo = [c \in Ctx |-> FALSE]
  /\ calls = 1
  /\ callid = [c \in Ctx |-> IF c = "host" THEN 1 ELSE 0]
  /\ via = [c \in Ctx |-> IF c = "host" THEN a.via ELSE ""]

\* The reader is between two frames (as after construction or after a
\* reset); no call or one call is in flight; the line carries up to
\* MaxStray stray bytes and one well-formed frame of a table type.
InitFrame ==
  /\ InitReader \/ InitReaderReset
  /\ InitRest
  /\ InitCallers \/ \E a \in CallsOf("host") : InitInFlight(a)
  /\ InitApp
  /\ \E st \in SeqsUpTo(StrayBytes, MaxStray) :
       \E t \in TableTypes : \E f \in PayloadBytes :
         /\ input = [stray |-> st, frame |-> Frame(t, f)]
         /\ wire = st \o Frame(t, f)

SpecFrame == InitFrame /\ [][RxRead]_vars

(* ------------------------------------------------------------------ *)
(* Routing of a completed frame                                         *)
(* ------------------------------------------------------------------ *)
\* The reader's last step put the frame it completed on the queue (as its
\* newest entry) / left the queue as it was.
OnRecv ==
  /\ Len(recv_q) = routed.nRecv + 1
  /\ recv_q[Len(recv_q)].msg = routed.frame
OnAsync ==
  /\ Len(async_q) = routed.nAsync + 1
  /\ async_q[Len(async_q)].msg = routed.frame
NotOnRecv == Len(recv_q) = routed.nRecv
NotOnAsync == Len(async_q) = routed.nAsync

\* A direct-message frame completed while a pending request that carries a
\* target address was bound.
DirectWithTarget ==
  routed.valid /\ IsDirectType(routed.frame) /\ routed.pend = "msg"

\* C1: a direct-message frame that completes while a pending request with
\* a target address is outstanding goes to the answer queue (and not to the
\* event queue) if the frame's source address equals the target, and to the
\* event queue (and not to the answer queue) if it differs.
C1_RoutedByAddress ==
  DirectWithTarget =>
    IF PySlice(routed.frame, 2, 5) = routed.target
    THEN OnRecv /\ NotOnAsync
    ELSE OnAsync /\ NotOnRecv

\* A frame from another device arrived while a request was pending and
\* went to the event queue.
C1_Witness ==
  /\ DirectWithTarget
  /\ PySlice(routed.frame, 2, 5) /= routed.target
  /\ OnAsync /\ NotOnRecv

\* C2: a frame the reader completes is put on exactly one of the answer
\* queue and the event queue.
C2_ExactlyOneQueue ==
  routed.valid => (OnRecv /\ NotOnAsync) \/ (OnAsync /\ NotOnRecv)

(* ------------------------------------------------------------------ *)
(* Transactions                                                         *)
(* ------------------------------------------------------------------ *)
Returned(c) == pc[c] = "done"

\* C3: the expectations in send_q all belong to one call, and that call
\* has not returned yet.
C3_OnePendingRequest ==
  send_q /= <<>> =>
    \E c \in Ctx :
      /\ ~Idle(c)
      /\ \A i \in 1..Len(send_q) : send_q[i].id = callid[c]

\* What the gateway and the device produce for a written message m: its
\* echo with a terminator byte, or the device's response to it.
ProducedFor(m, f) ==
  \/ Len(f) = Len(m) + 1 /\ PySlice(f, 0, Len(m)) = m
  \/ IsDirectCmd(m) /\ f = DeviceResponse(m)

\* C4: whatever the interleaving of two calling contexts, a frame send_msg
\* returns to one context is never a frame that was produced for the
\* message the other context transmitted.
C4_NoCrosstalk ==
  \A c \in Ctx : \A o \in Ctx \ {c} :
    (Returned(c) /\ ret[c].kind = "list" /\ message[o] /= <<>>)
      => ~ProducedFor(message[o], ret[c].msg)

\* The frame e has the length of an echo of m and differs from m in
\* exactly one byte.
OneByteOff(m, e) ==
  /\ Len(e) = Len(m) + 1
  /\ Cardinality({i \in 1..Len(m) : e[i] /= m[i]}) = 1

\* C5: a call whose echo differed from the message in a single byte has
\* returned 'Invalid echo', and exactly one reset happened between the
\* call and its return.
C5_EchoMismatchResetsOnce ==
  \A c \in Ctx :
    (Returned(c) /\ msg_q[c] /= <<>> /\ OneByteOff(message[c], msg_q[c]))
      => ret[c] = RetErr("Invalid echo") /\ rcount[c] = 1

DesyncErrors ==
  {"Invalid echo", "Invalid message length", "No ACK received!",
   "Timeout waiting for echo", "Timeout waiting for response"}

\* C6: when send_msg has returned an error that indicates
\* desynchronization (echo mismatch, length mismatch, missing ACK, echo or
\* response timeout), at least one reset happened between the call and its
\* return.
C6_DesyncFailureResets ==
  \A c \in Ctx :
    (Returned(c) /\ ret[c].kind = "err" /\ ret[c].err \in DesyncErrors)
      => rcount[c] >= 1

\* The call succeeded: it returned the ACK'd echo of its message (no
\* response expected) or the response to its message.
Succeeded(c) ==
  /\ Returned(c)
  /\ ret[c] = IF resp_len[c] = 0 THEN RetList(Echo(message[c], ACK))
              ELSE RetList(DeviceResponse(message[c]))

C8_NackCancelsExpectation ==
  \A c \in Ctx :
    (Returned(c) /\ ret[c] = RetErr("NACK"))
      => /\ ~did[c].waited
         /\ ~did[c].reset
         /\ \A i \in 1..Len(send_q) : send_q[i].id /= callid[c]

SurfacedErrors ==
  {"Timeout waiting for echo", "Timeout waiting for response",
   "Invalid echo", "NACK", "No ACK received!"}

\* C9: when the send_msg of a sendExtMessage has failed with a timeout,
\* an echo mismatch, a NACK or a missing ACK, sendExtMessage does not
\* return 'OK'.
C9_ExtFailureSurfaced ==
  \A c \in Ctx :
    (Returned(c) /\ via[c] = "sendExtMessage" /\ ret[c].kind = "err"
       /\ ret[c].err \in SurfacedErrors)
      => sendExtResult(ret[c]) /= "OK"

(* ------------------------------------------------------------------ *)
(* Reassembly                                                           *)
(* ------------------------------------------------------------------ *)
\* The flags byte of a frame (0 for a frame too short to have one).
FlagsOf(d) == IF Len(d) >= 6 THEN d[6] ELSE 0

\* The reader has read the whole input of the reassembly specification.
InputRead == input.frame /= <<>> /\ wire = <<>>

\* C10: when the reader has read N stray bytes followed by one well-formed
\* frame of a table type, it has completed exactly one frame: the step that
\* read the last byte completed the input's frame, of the total length of
\* its type, as the first frame put on a queue; nothing is left in the
\* buffer; the stray bytes are in no frame and were reported (as the
\* 'Extra byte(s)' of the log) when N > 0.
C10_OneFrameReassembled ==
  InputRead =>
    /\ data = <<>>
    /\ routed.valid
    /\ routed.frame = input.frame
    /\ Len(routed.frame) = TotalLen(input.frame[2], FlagsOf(input.frame))
    /\ routed.nRecv = 0 /\ routed.nAsync = 0
    /\ OnRecv \/ OnAsync
    /\ \A i \in 1..Len(recv_q) : recv_q[i].msg = input.frame
    /\ \A i \in 1..Len(async_q) : async_q[i].msg = input.frame
    /\ extra_bytes = <<>> /\ ~extra_bytes_flag
    /\ lastExtra = input.stray

\* Two stray bytes and an extended (23-byte) frame of the variable-length
\* type have been read and the frame was completed.
C10_Witness ==
  /\ InputRead
  /\ Len(input.stray) = MaxStray
  /\ input.frame[2] = insteonSend
  /\ Len(input.frame) = 23
  /\ routed.valid /\ routed.frame = input.frame
  /\ lastExtra = input.stray

(* ------------------------------------------------------------------ *)
(* sendStdMessage                                                       *)
(* ------------------------------------------------------------------ *)
StdDone == stdcall.state \in {"send_msg", "Invalid address"}

\* flags & 0xC0 is not zero: bit 7 or bit 6 is set.
AnyBroadcastBit(flags) == BitSet(flags, 128) \/ BitSet(flags, 64)

\* C11: the response length sendStdMessage computes is 0 when a broadcast
\* bit of the flags is set, otherwise 22 for an identification request,
\* otherwise 11, whatever the address, cmd1, cmd2 and flags; and when it
\* calls send_msg (the address is valid) that is the length it passes.
C11_StdResponseLength ==
  StdDone =>
    /\ stdcall.computed =
         IF AnyBroadcastBit(stdcall.flags) THEN 0
         ELSE IF stdcall.cmd1 = 16 THEN 22 ELSE 11
    /\ stdcall.state = "send_msg" => stdcall.sent.rl = stdcall.computed

\* An identification request with a broadcast bit set was passed to
\* send_msg with length 0.
C11_Witness ==
  /\ stdcall.state = "send_msg"
  /\ stdcall.cmd1 = 16
  /\ stdcall.flags = 207
  /\ stdcall.sent.rl = 0

\* C12 as stated: an identification request computes length 22 whatever
\* the flags.
C12_IdReqAlways22 ==
  (StdDone /\ stdcall.cmd1 = 16) => stdcall.computed = 22

\* C12 as amended: an identification request computes length 22 whatever
\* the flags, provided no broadcast bit is set; with a broadcast bit set
\* it computes 0.
C12_IdReq22UnlessBroadcast ==
  (StdDone /\ stdcall.cmd1 = 16) =>
    stdcall.computed = IF AnyBroadcastBit(stdcall.flags) THEN 0 ELSE 22

\* An identification request with the extended bit and all low bits set
\* (and no broadcast bit) computed 22.
C12_Witness ==
  /\ StdDone
  /\ stdcall.cmd1 = 16
  /\ stdcall.flags = 31
  /\ stdcall.computed = 22

(* ------------------------------------------------------------------ *)
(* The link database                                                    *)
(* ------------------------------------------------------------------ *)
\* getLinkTable has returned, the device having sent every frame it owed,
\* and the database is still the one that was read.
LtAnswered == lt.pc = "done" /\ ~dev.lost /\ del.pc \in {"none", "table"}

UsedBefore == Len(Used(del.before))

\* deleteLinkRecord has returned, the device having answered its
\* getLinkTable in full, for a record of the database (or -1).
Deleted ==
  /\ del.pc = "done"
  /\ ~dev.lost
  /\ UsedBefore >= 1
  /\ del.record = -1 \/ (0 <= del.record /\ del.record < UsedBefore)

\* The database C14 describes: position r holds the former last record
\* (unless r is the last position or -1), the last position is zeroed,
\* every other record is as before.
AfterDelete(mem, n, r) ==
  [i \in 1..Len(mem) |->
     IF i = n THEN [k \in 1..8 |-> 0]
     ELSE IF r /= -1 /\ i = r + 1 THEN mem[n]
     ELSE mem[i]]

MaxCount == 3
MaxFirings == 4
MaxEvents == 1
Day == 86400

\* A Python value that is an int or a str.
PyInt(n) == [int |-> TRUE, n |-> n, s |-> ""]
PyStr(s) == [int |-> FALSE, n |-> 0, s |-> s]

\* x in range(0,256) (a str is in no range).
InByteRange(x) == x.int /\ x.n \in 0..255

\* x in a list of strings.
InWords(x, words) == ~x.int /\ x.s \in words

\* None as an address, as a command and as a button.
NoAddr == <<>>
NoByte == -1

\* LightingEvent(type, interval), lines 1883-1898.  num_events, created and
\* seconds are not in the program: they keep the count the event was
\* created with, the time it was created at and the time of day it was
\* created for.
LightingEvent(type, interval) ==
  [type |-> type, interval |-> interval, events_remaining |-> PyStr("None"),
   action |-> "None", level |-> NoByte, from_address |-> NoAddr,
   from_button |-> NoByte, from_cmd |-> NoByte, to_address |-> NoAddr,
   num_events |-> PyStr("None"), created |-> 0, seconds |-> 0]

\* threading.Timer(interval, function, [event]) started at time t.  st:
\* "armed" while the thread waits for the interval, "fired" once it has seen
\* that it was not cancelled, "action" when timer_handler has re-armed and
\* is about to call action_handler, "done", "cancelled".  firedAt is the
\* time it fired (-1 before).
Timer(interval, function, event, t) ==
  [interval |-> interval, function |-> function, event |-> event,
   started |-> t, st |-> "armed", firedAt |-> -1]

\* What a call to the scheduler surface does: its result, the events it
\* creates, the timers it starts, the listeners it registers.
SchedResult(r, evs, timers, listeners) ==
  [ret |-> r, events |-> evs, timers |-> timers, listeners |-> listeners]

Refused(r) == SchedResult(r, <<>>, <<>>, <<>>)

\* An exception leaves the call: nothing after the raising line is done.
Fault(exc) == SchedResult(exc, <<>>, <<>>, <<>>)

\* Lines 1158-1161 and 1234-1238: event.action and event.level of an action
\* that is a level or a word.
WithAction(event, action) ==
  IF action.int THEN [event EXCEPT !.action = "on", !.level = action.n]
  ELSE [event EXCEPT !.action = action.s]

\* addIntervalEvent(interval, action, address, num_events), lines 1151-1167;
\* k is the place of the new event in events, t the time of the call.
addIntervalEvent(interval, action, address, num_events, k, t) ==
  IF ~InWords(action, {"toggle", "update", "update_all"}) /\
     ~InByteRange(action)
  THEN Refused("Invalid action")
  ELSE IF interval <= 0 THEN Refused("Invalid interval")
  ELSE LET event == [WithAction(LightingEvent("interval", interval), action)
                       EXCEPT !.events_remaining = num_events,
                              !.num_events = num_events,
                              !.to_address = address, !.created = t]
       IN SchedResult("OK", <<event>>,
                      <<Timer(interval, "timer_handler", k, t)>>, <<>>)

\* register_callback(func, event), lines 298-304; args is the number of
\* arguments of func besides self.
register_callback(func, args, event, evs) ==
  IF args = 1
  THEN SchedResult("OK", evs, <<>>, <<[func |-> func, event |-> event]>>)
  ELSE Refused("Callback function must take exactly 1 argument")

\* addTriggeredEvent(trig_address, trig_cmd, action, delay), lines
\* 1183-1205.  trig_address is [addr, btn]: the dotted address as the list
\* of its values and what follows the colon ("" when there is no colon,
\* "x" for something int() does not take).
BtnWords == {"", "1", "2", "x"}
BtnNum(w) == CASE w = "1" -> 1 [] w = "2" -> 2 [] OTHER -> NoByte

addTriggeredEvent(trig_address, trig_cmd, action, delay, k) ==
  IF action.int /\ ~InByteRange(action) THEN Refused("Invalid level")
  ELSE IF ~InWords(action, {"toggle", "on", "off", "callback"})
  THEN Refused("Invalid action")
  ELSE IF trig_address.btn = "x" THEN Fault("ValueError")
  ELSE LET a == address_to_list(trig_address.addr)
       IN IF ~a.ok THEN Refused("Invalid address")
          ELSE LET event ==
                     [LightingEvent("trigger", delay) EXCEPT
                        !.level = CASE action.s = "on" -> 255
                                    [] action.s = "off" -> 0
                                    [] OTHER -> NoByte,
                        !.action = action.s,
                        !.from_address = a.list,
                        !.from_cmd = trig_cmd,
                        !.from_button = BtnNum(trig_address.btn),
                        !.to_address = a.list]
               IN register_callback("timer_handler", 1, k, <<event>>)

\* Lines 1228-1229: the delay from now_sec to the next time the clock shows
\* seconds.
FirstDelay(seconds, now_sec) ==
  IF seconds - now_sec < 0 THEN seconds - now_sec + Day
  ELSE seconds - now_sec

\* addDailyEvent(action_time, action_address, action), lines 1214-1244.
\* action_time is [word, parts]: the string itself and the numbers between
\* its colons; interval is bound on the 'HH:MM:SS' branch only.
addDailyEvent(action_time, action_address, action, k, t) ==
  IF action.int /\ ~InByteRange(action) THEN Refused("Invalid level")
  ELSE IF ~action.int /\ ~InWords(action, {"toggle"})
  THEN Refused("Invalid action")
  ELSE IF action_time.word \in {"sunrise", "sunset"}
  THEN Fault("UnboundLocalError")
  ELSE IF Len(action_time.parts) < 3 THEN Fault("IndexError")
  ELSE LET act_time == action_time.parts
           seconds == 3600 * act_time[1] + 60 * act_time[2] + act_time[3]
           interval == FirstDelay(seconds, t % Day)
           event == [WithAction(LightingEvent("daily", interval), action)
                       EXCEPT !.events_remaining = PyStr("Inf"),
                              !.num_events = PyStr("Inf"),
                              !.to_address = action_address,
                              !.created = t, !.seconds = seconds]
       IN SchedResult("OK", <<event>>,
                      <<Timer(interval, "timer_handler", k, t)>>, <<>>)


\* timer_handler re-arming whatever the count.
RearmsAlways(remaining) == TRUE

\* timer_handler re-arming at no count.
RearmsNever(remaining) == FALSE

\* Line 1254: event.events_remaining != 0.
Rearms(remaining) == ~(remaining.int /\ remaining.n = 0)

\* timer_handler re-arming a daily event with the interval it has.
NextIntervalSame(event) == event.interval

\* Line 1256: the interval of the timer that re-arms the event.
NextInterval(event) ==
  IF event.type = "daily" THEN Day ELSE event.interval

\* timer_handler(event), lines 1251-1265, of the event at place k at time
\* t: the event afterwards, the timers it starts, whether it goes on to
\* action_handler (line 1260).
timer_handler(event, k, t) ==
  IF event.type \in {"interval", "daily"}
  THEN LET remaining == IF event.events_remaining.int
                        THEN PyInt(event.events_remaining.n - 1)
                        ELSE event.events_remaining
           iv == IF Rearms(remaining) THEN NextInterval(event)
                 ELSE event.interval
       IN [event |-> [event EXCEPT !.events_remaining = remaining,
                                   !.interval = iv],
           timers |-> IF Rearms(remaining)
                      THEN <<Timer(iv, "timer_handler", k, t)>> ELSE <<>>,
           acts |-> TRUE]
  ELSE IF event.type = "trigger"
  THEN [event |-> event,
        timers |-> <<Timer(event.interval, "action_handler", k, t)>>,
        acts |-> FALSE]
  ELSE [event |-> event, timers |-> <<>>, acts |-> FALSE]

\* An entry of the record of invocations (not in the program): a listener
\* callback called with msg, or action_handler called for an event.
Invocation(what, listener, event, timer, msg) ==
  [what |-> what, listener |-> listener, event |-> event, timer |-> timer,
   msg |-> msg, at |-> now, closed |-> closer.pc = "returned"]

Due(tm) == tm.started + tm.interval
Armed == {i \in DOMAIN timer_threads : timer_threads[i].st = "armed"}
Running == {i \in DOMAIN timer_threads :
              timer_threads[i].st \in {"fired", "action"}}
Fired == {i \in DOMAIN timer_threads :
            timer_threads[i].st \in {"fired", "action", "done"}}

schedRest == <<coreVars, stdcall, rst, ee, dev, lt, del, lvl, registry>>

\* A call to the scheduler surface with result r.
SchedCall(op, r) ==
  /\ sched.calls < MaxEvents
  /\ closer.pc = "none"
  /\ events' = events \o r.events
  /\ timer_threads' = timer_threads \o r.timers
  /\ async_callbacks' = async_callbacks \o r.listeners
  /\ sched' = [op |-> op, ret |-> r.ret, calls |-> sched.calls + 1,
               armed |-> Len(r.timers), registered |-> Len(r.listeners)]
  /\ UNCHANGED <<schedRest, now, closer, invoked, disp>>

Intervals == {-1, 0, 5}
IntervalActions == {PyStr("toggle"), PyStr("dim"), PyInt(128), PyInt(256)}
Counts == {PyInt(n) : n \in 1..MaxCount} \cup {PyStr("inf")}

AddInterval ==
  \E interval \in Intervals : \E action \in IntervalActions :
    \E num_events \in Counts :
      SchedCall("addIntervalEvent",
                addIntervalEvent(interval, action, AddrA, num_events,
                                 Len(events) + 1, now))

Times == {[word |-> "sunrise", parts |-> <<>>],
          [word |-> "sunset", parts |-> <<>>],
          [word |-> "", parts |-> <<0, 0, 0>>],
          [word |-> "", parts |-> <<6, 0, 0>>],
          [word |-> "", parts |-> <<23, 59, 59>>],
          [word |-> "", parts |-> <<6, 30>>]}
DailyActions == {PyStr("toggle"), PyStr("on"), PyInt(128), PyInt(256)}

AddDaily ==
  \E action_time \in Times : \E action \in DailyActions :
    SchedCall("addDailyEvent",
              addDailyEvent(action_time, AddrA, action, Len(events) + 1, now))

TrigAddresses == {[addr |-> a, btn |-> b] :
                    a \in {AddrA, <<66, 34>>}, b \in {"", "1", "x"}}
TrigActions == {PyStr("toggle"), PyStr("callback"), PyStr("dim"),
                PyInt(128), PyInt(256)}
Delays == {0, 3}

AddTriggered ==
  \E trig_address \in TrigAddresses : \E action \in TrigActions :
    \E delay \in Delays :
      SchedCall("addTriggeredEvent",
                addTriggeredEvent(trig_address, cmdON, action, delay,
                                  Len(events) + 1))

\* Time passes until the next timer is due.
Tick ==
  /\ Armed /= {}
  /\ Running = {}
  /\ \E i \in Armed :
       /\ \A j \in Armed : Due(timer_threads[i]) <= Due(timer_threads[j])
       /\ Due(timer_threads[i]) > now
       /\ now' = Due(timer_threads[i])
  /\ UNCHANGED <<schedRest, events, timer_threads, closer, sched, invoked,
                 async_callbacks, disp>>

\* threading.Timer.run: the interval is over and the timer was not
\* cancelled; its function is called next.
TimerFire(i) ==
  /\ i \in Armed
  /\ Due(timer_threads[i]) <= now
  /\ Cardinality(Fired) < MaxFirings
  /\ timer_threads' = [timer_threads EXCEPT ![i].st = "fired",
                                             ![i].firedAt = now]
  /\ UNCHANGED <<schedRest, events, now, closer, sched, invoked,
                 async_callbacks, disp>>

\* The timer's thread runs timer_handler up to line 1259.
TimerHandler(i) ==
  /\ i \in DOMAIN timer_threads
  /\ timer_threads[i].st = "fired"
  /\ timer_threads[i].function = "timer_handler"
  /\ LET k == timer_threads[i].event
         h == timer_handler(events[k], k, now)
     IN /\ events' = [events EXCEPT ![k] = h.event]
        /\ timer_threads' =
             [timer_threads EXCEPT ![i].st = "action"] \o h.timers
  /\ UNCHANGED <<schedRest, now, closer, sched, invoked, async_callbacks,
                 disp>>

\* The timer's thread calls action_handler: from timer_handler (line 1260)
\* or as the timer's own function (line 1263).
TimerAction(i) ==
  /\ i \in DOMAIN timer_threads
  /\ \/ timer_threads[i].st = "action"
     \/ /\ timer_threads[i].st = "fired"
        /\ timer_threads[i].function = "action_handler"
  /\ invoked' = Append(invoked, Invocation("action", 0,
                                           timer_threads[i].event, i, <<>>))
  /\ timer_threads' = [timer_threads EXCEPT ![i].st = "done"]
  /\ UNCHANGED <<schedRest, events, now, closer, sched, async_callbacks,
                 disp>>

\* close(), lines 254-256: s.close() raises when no serial port was found
\* (s is None, line 248) and the bare except ends the call.
CloseCall ==
  /\ closer.pc = "none"
  /\ closer' = IF closer.s = "None" THEN [closer EXCEPT !.pc = "returned"]
               ELSE [closer EXCEPT !.pc = "cancel", !.i = 1]
  /\ UNCHANGED <<schedRest, events, timer_threads, now, sched, invoked,
                 async_callbacks, disp>>

\* Lines 258-260: the next timer of the list is cancelled (a timer that has
\* fired is not stopped by cancel); after the last one close() returns.
CloseCancel ==
  /\ closer.pc = "cancel"
  /\ IF closer.i > Len(timer_threads)
     THEN /\ closer' = [closer EXCEPT !.pc = "returned"]
          /\ UNCHANGED timer_threads
     ELSE /\ closer' = [closer EXCEPT !.pc = "wait", !.num_tries = 0]
          /\ timer_threads' =
               [timer_threads EXCEPT ![closer.i].st =
                  IF @ = "armed" THEN "cancelled" ELSE @]
  /\ UNCHANGED <<schedRest, events, now, sched, invoked, async_callbacks,
                 disp>>

\* Lines 261-263: up to three waits of a quarter of a second while the
\* timer's thread is alive.
CloseWait ==
  /\ closer.pc = "wait"
  /\ closer' = IF closer.i \in Running /\ closer.num_tries < 3
               THEN [closer EXCEPT !.num_tries = @ + 1]
               ELSE [closer EXCEPT !.pc = "cancel", !.i = @ + 1]
  /\ UNCHANGED <<schedRest, events, timer_threads, now, sched, invoked,
                 async_callbacks, disp>>


(* ------------------------------------------------------------------ *)
(* The event dispatcher: AsyncEventThread.run                            *)
(* ------------------------------------------------------------------ *)
MaxArrivals == 2
GroupBroadcast == 192

LocalNames == {"from_addr", "btn", "flags", "cmd1", "cmd2"}

\* The locals of run() that the frame data binds, lines 1737-1754.  An X10
\* frame binds all of them, four to None; of another frame the assignments
\* up to the first index out of range are done (IndexError, line 1753).
Assigned(d) ==
  IF d[2] = x10Recv THEN LocalNames
  ELSE {"from_addr"} \cup (IF Len(d) >= 8 THEN {"btn"} ELSE {})
                     \cup (IF Len(d) >= 9 THEN {"flags"} ELSE {})
                     \cup (IF Len(d) >= 10 THEN {"cmd1"} ELSE {})
                     \cup (IF Len(d) >= 11 THEN {"cmd2"} ELSE {})

Unpack(d, loc) ==
  LET x10 == d[2] = x10Recv
      a == Assigned(d)
      get(name, i, old) == IF name \in a /\ ~x10 THEN d[i + 1] ELSE old
  IN [loc EXCEPT
        !.bound = @ \cup a,
        !.none = IF x10 THEN (@ \cup LocalNames) \ {"from_addr"} ELSE @ \ a,
        !.from_addr = IF x10 THEN <<d[3], d[3], d[3]>> ELSE PySlice(d, 2, 5),
        !.btn = get("btn", 7, @),
        !.flags = get("flags", 8, @),
        !.cmd1 = get("cmd1", 9, @),
        !.cmd2 = get("cmd2", 10, @)]

\* A dispatcher that takes the top two bits for the category.
FlagsUpperTwoBits(flags) == flags - (flags % 64)

\* Line 1762: flags & 0xF0.
FlagsUpper(flags) == flags - (flags % 16)

\* Lines 1757-1765 for a listener's event and the locals: "call" the
\* callback, "skip" it, or the exception that ends the thread.  A local
\* that is read before it was ever bound raises UnboundLocalError, None &
\* 0xF0 raises TypeError.
Readable(name, loc) == name \in loc.bound
HasValue(name, loc) == name \in loc.bound /\ name \notin loc.none

Decide(event, loc) ==
  IF ~Readable("from_addr", loc) THEN "UnboundLocalError"
  ELSE IF ~(event.from_address = loc.from_addr \/
            event.from_address = NoAddr) THEN "skip"
  ELSE IF ~Readable("cmd1", loc) THEN "UnboundLocalError"
  ELSE IF ~((HasValue("cmd1", loc) /\ event.from_cmd = loc.cmd1) \/
            event.from_cmd = NoByte) THEN "skip"
  ELSE IF ~Readable("btn", loc) THEN "UnboundLocalError"
  ELSE IF ~((HasValue("btn", loc) /\ event.from_button = loc.btn) \/
            event.from_button = NoByte) THEN "skip"
  ELSE IF ~Readable("flags", loc) THEN "UnboundLocalError"
  ELSE IF ~HasValue("flags", loc) THEN "TypeError"
  ELSE IF FlagsUpper(loc.flags) = GroupBroadcast THEN "call"
  ELSE "skip"

\* The body of the loop over async_callbacks for the listener at place i
\* (lines 1726-1765): st carries the thread's locals, the events, the
\* timers and the invocations so far.
Offer(i, d, st) ==
  LET cb == async_callbacks[i]
  IN IF cb.event = 0
     THEN [st EXCEPT !.invoked =
             Append(@, Invocation("callback", i, 0, 0, d))]
     ELSE LET loc == Unpack(d, st.disp)
              v == Decide(st.events[cb.event], loc)
              h == timer_handler(st.events[cb.event], cb.event, now)
          IN IF v = "skip" THEN [st EXCEPT !.disp = loc]
             ELSE IF v /= "call"
             THEN [st EXCEPT !.disp = [loc EXCEPT !.alive = FALSE]]
             ELSE IF cb.func = "timer_handler"
             THEN [st EXCEPT !.disp = loc,
                             !.events[cb.event] = h.event,
                             !.timer_threads = @ \o h.timers,
                             !.invoked = Append(@, Invocation(
                                "callback", i, cb.event, 0, d))]
             ELSE [st EXCEPT !.disp = loc,
                             !.invoked = Append(@, Invocation(
                                "callback", i, cb.event, 0, d))]

RECURSIVE RunCallbacks(_, _, _)
RunCallbacks(i, d, st) ==
  IF i > Len(async_callbacks) \/ ~st.disp.alive THEN st
  ELSE RunCallbacks(i + 1, d, Offer(i, d, st))

\* findResponders(address, button), lines 1362-1382: the devices of the file,
\* in file order, that list address:button under respondsToBtn, and the
\* address itself for button 1.  (Each device lists a pair once.)
RECURSIVE FileResponders(_, _, _, _)
FileResponders(reg, address, button, i) ==
  IF i > Len(reg.address) THEN <<>>
  ELSE (IF <<address, button>> \in reg.respondsToBtn[i]
        THEN <<reg.address[i]>> ELSE <<>>)
       \o FileResponders(reg, address, button, i + 1)

findResponders(reg, address, button) ==
  (IF reg.file THEN FileResponders(reg, address, button, 1) ELSE <<>>)
  \o (IF button = 1 THEN <<address>> ELSE <<>>)

\* getTypeByIndex (lines 1461-1472); index 0 is None.
getTypeByIndex(reg, index) ==
  IF index \in DOMAIN reg.devType THEN reg.devType[index] ELSE "None"

\* (Variant: no device type is exempt from the status query.)
IsRelayOnlyNever(devType) == FALSE

\* Line 1797.
IsRelayOnly(devType) == devType = "GarageIO"

\* What getLevel(dev, False) returns (lines 850-857): the level the device
\* reports, or (NoByte) the error string of a transaction that failed.
QueryResults == {NoByte, 0, 200}

\* The status query the dispatcher sent to device, and the level it wrote
\* to the device file (NoByte: none, the transaction failed or the file
\* does not list the device).
Query(device, wrote) ==
  Invocation("getLevel", 0, 0, 0, device) @@ [wrote |-> wrote]

\* Lines 1794-1807 for the responders from place k on: rs[k] is the result
\* of the status query to the responder at place k.  getLevel writes the
\* level it got to the device file (line 853) and line 1805 writes it
\* again.
RECURSIVE Poll(_, _, _, _, _)
Poll(resp, k, cmd1, rs, acc) ==
  IF k > Len(resp) THEN acc
  ELSE LET device == resp[k]
           devType == getTypeByIndex(acc.registry,
                                     getIndexByAddress(acc.registry, device))
       IN Poll(resp, k + 1, cmd1, rs,
               IF IsRelayOnly(devType)
               THEN [acc EXCEPT !.registry =
                       IF cmd1 = cmdON THEN updateLevel(@, device, 255)
                       ELSE IF cmd1 = cmdOFF THEN updateLevel(@, device, 0)
                       ELSE @]
               ELSE [registry |-> IF rs[k] = NoByte THEN acc.registry
                                  ELSE updateLevel(acc.registry, device,
                                                   rs[k]),
                     log |-> Append(acc.log, Query(device,
                               IF getIndexByAddress(acc.registry, device) = 0
                               THEN NoByte ELSE rs[k]))])

\* The responders parse_async_event goes through for the frame d (lines
\* 1772-1794): none unless d has a flags byte with the top nibble 0xC0 and
\* the command ON, OFF or stopChange.
Polled(d, reg) ==
  IF Len(d) >= 11 /\ FlagsUpper(d[9]) = GroupBroadcast
     /\ d[10] \in {cmdON, cmdOFF, stopChange}
  THEN findResponders(reg, PySlice(d, 2, 5), d[8])
  ELSE <<>>

\* parse_async_event(data), lines 1772-1807: the device file afterwards and
\* the status queries sent.
parse_async_event(d, reg, rs) ==
  Poll(Polled(d, reg), 1, IF Len(d) >= 10 THEN d[10] ELSE 0, rs,
       [registry |-> reg, log |-> <<>>])

\* One turn of run()'s loop, lines 1723-1765: the next unsolicited frame is
\* taken, parse_async_event brings the device file up to date (each
\* status query is taken as one step with its result) and the frame is
\* offered to every listener.
Dispatch ==
  /\ disp.alive
  /\ async_q /= <<>>
  /\ Cardinality(DOMAIN timer_threads) < MaxFirings + MaxEvents
  /\ \E rs \in [1..Len(Polled(Head(async_q).msg, registry)) -> QueryResults] :
       LET p == parse_async_event(Head(async_q).msg, registry, rs)
           st == RunCallbacks(1, Head(async_q).msg,
                              [disp |-> disp, events |-> events,
                               timer_threads |-> timer_threads,
                               invoked |-> invoked \o p.log])
       IN /\ registry' = p.registry
          /\ disp' = st.disp
          /\ events' = st.events
          /\ timer_threads' = st.timer_threads
          /\ invoked' = st.invoked
  /\ async_q' = Tail(async_q)
  /\ UNCHANGED <<wire, gwVars, rxVars, num_resets, rcount, send_q, recv_q,
                 callVars, follow, input, routed, stdcall, rst, ee, dev, lt, del,
                 now, closer, sched, async_callbacks, lvl>>

\* The reader completes an unsolicited frame f while no expectation is
\* queued and puts it on async_q (lines 1664-1695, see Route).
Arrive(f) ==
  /\ unsol < MaxArrivals
  /\ unsol' = unsol + 1
  /\ async_q' = Append(async_q, FramePacket(f))
  /\ UNCHANGED <<wire, gwIn, owed, rxVars, num_resets, rcount, send_q,
                 recv_q, callVars, follow, input, routed, appVars>>

InitSched ==
  /\ InitCore
  /\ stdcall = NoStdCall /\ rst = NoResets /\ ee = NoEE /\ dev = NoDevice
  /\ lt = NoLinkCall /\ del = NoLinkCall
  /\ events = <<>>
  /\ timer_threads = <<>>
  /\ now \in {21600, 86399}
  /\ closer \in {NoClose, [NoClose EXCEPT !.s = "None"]}
  /\ sched = NoSched
  /\ invoked = <<>>
  /\ async_callbacks = <<>>
  /\ disp = NoLocals
  /\ lvl = NoLinkCall
  /\ registry = NoFile

NextSched ==
  \/ AddInterval
  \/ AddDaily
  \/ AddTriggered
  \/ Tick
  \/ \E i \in DOMAIN timer_threads : TimerFire(i)
  \/ \E i \in DOMAIN timer_threads : TimerHandler(i)
  \/ \E i \in DOMAIN timer_threads : TimerAction(i)
  \/ Arrive(BroadcastFrom(AddrA))
  \/ Dispatch
  \/ CloseCall
  \/ CloseCancel
  \/ CloseWait

SpecSched == InitSched /\ [][NextSched]_vars


(* ------------------------------------------------------------------ *)
(* Interval events                                                      *)
(* ------------------------------------------------------------------ *)
\* The number of times action_handler was called for the event at place k.
ActionsOf(k) ==
  Cardinality({j \in DOMAIN invoked :
                 invoked[j].what = "action" /\ invoked[j].event = k})

\* The timers of the event at place k that are in one of the states.
TimersOf(k, states) ==
  {i \in DOMAIN timer_threads :
     timer_threads[i].event = k /\ timer_threads[i].st \in states}

\* The interval events created with a finite count of at least one.
CountedEvents ==
  {k \in DOMAIN events :
     /\ events[k].type = "interval"
     /\ events[k].num_events.int
     /\ events[k].num_events.n >= 1}

\* C15: an interval event created with a finite count N >= 1 has its action
\* invoked at most N times; once it was invoked N times no timer of the
\* event is armed or running; and when all its timers have run (none was
\* cancelled) it was invoked exactly N times.
C15_IntervalFiresCountTimes ==
  \A k \in CountedEvents :
    LET N == events[k].num_events.n
    IN /\ ActionsOf(k) <= N
       /\ ActionsOf(k) = N => TimersOf(k, {"armed", "fired", "action"}) = {}
       /\ TimersOf(k, {"armed", "fired", "action", "cancelled"}) = {}
            => ActionsOf(k) = N

\* An event created with the largest count has fired that many times, with
\* no close() in the way.
C15_Witness ==
  \E k \in CountedEvents :
    /\ events[k].num_events.n = MaxCount
    /\ ActionsOf(k) = MaxCount
    /\ TimersOf(k, {"done"}) /= {}
    /\ closer.pc = "none"


(* ------------------------------------------------------------------ *)
(* Daily events                                                         *)
(* ------------------------------------------------------------------ *)
DailyEvents == {k \in DOMAIN events : events[k].type = "daily"}

\* The timers of the event at place k that were started before timer i.
Earlier(k, i) == {j \in TimersOf(k, {"armed", "fired", "action", "done",
                                     "cancelled"}) : j < i}

\* The timer of the event that was started last before timer i.
Previous(k, i) == CHOOSE j \in Earlier(k, i) : \A h \in Earlier(k, i) : h <= j

\* C16: the first timer of a daily event is started at its creation with a
\* delay in [0, 24h) that ends when the clock next shows the event's time
\* of day; every later timer of the event is started when the one before
\* fired, for 24 hours.
C16_DailyRearmsFromFiring ==
  \A k \in DailyEvents :
    \A i \in DOMAIN timer_threads :
      timer_threads[i].event = k =>
        LET tm == timer_threads[i]
        IN IF Earlier(k, i) = {}
           THEN /\ tm.started = events[k].created
                /\ tm.interval \in 0..(Day - 1)
                /\ Due(tm) % Day = events[k].seconds
           ELSE /\ tm.started = timer_threads[Previous(k, i)].firedAt
                /\ tm.interval = Day
                /\ Due(tm) = timer_threads[Previous(k, i)].firedAt + Day

\* A daily event created some time before its time of day has fired twice:
\* its third timer is armed, 24 hours after the second firing, which is not
\* 24 hours after the creation.
C16_Witness ==
  \E k \in DailyEvents :
    \E i \in TimersOf(k, {"armed"}) :
      /\ Cardinality(Earlier(k, i)) = 2
      /\ ActionsOf(k) = 2
      /\ timer_threads[Previous(k, i)].firedAt > events[k].created
      /\ Due(timer_threads[i]) /= events[k].created + Day


(* ------------------------------------------------------------------ *)
(* Results of the scheduler surface                                     *)
(* ------------------------------------------------------------------ *)
\* The validation errors the three methods return.
ValidationErrors ==
  {"Invalid action", "Invalid interval", "Invalid level", "Invalid address",
   "Callback function must take exactly 1 argument"}

\* C17: every call to addIntervalEvent, addTriggeredEvent or addDailyEvent
\* returns 'OK' or a validation error (no exception leaves it), and a call
\* that returns a validation error has started no timer and registered no
\* listener.
C17_SchedulerNeverFaults ==
  sched.op /= "none" =>
    /\ sched.ret \in {"OK"} \cup ValidationErrors
    /\ sched.ret /= "OK" => sched.armed = 0 /\ sched.registered = 0


(* ------------------------------------------------------------------ *)
(* Shutdown                                                             *)
(* ------------------------------------------------------------------ *)
\* C20: no scheduled action of an interval, daily or trigger event is
\* invoked after close() has returned.
C20_NoActionAfterClose ==
  \A j \in DOMAIN invoked :
    invoked[j].what = "action" => ~invoked[j].closed


(* ------------------------------------------------------------------ *)
(* setLevel                                                             *)
(* ------------------------------------------------------------------ *)
\* The float 2.55 of line 824: the double nearest to 2.55 is
\* 2871044762448691 / 2^50; these are the 52 bits of the numerator, the
\* highest first.
Bits255 ==
  <<1, 0, 1, 0, 0, 0, 1, 1, 0, 0, 1, 1, 0,
   0, 1, 1, 0, 0, 1, 1, 0, 0, 1, 1, 0, 0,
   1, 1, 0, 0, 1, 1, 0, 0, 1, 1, 0, 0, 1,
   1, 0, 0, 1, 1, 0, 0, 1, 1, 0, 0, 1, 1>>
FracBits == 50
DoubleBits == 53

\* Numbers as sequences of bits, the lowest first.
RECURSIVE Reverse(_)
Reverse(b) == IF b = <<>> THEN <<>> ELSE Append(Reverse(Tail(b)), Head(b))

RECURSIVE ToBits(_)
ToBits(n) == IF n = 0 THEN <<>> ELSE <<n % 2>> \o ToBits(n \div 2)

RECURSIVE FromBits(_)
FromBits(b) == IF b = <<>> THEN 0 ELSE Head(b) + 2 * FromBits(Tail(b))

RECURSIVE Strip(_)
Strip(b) ==
  IF b = <<>> \/ b[Len(b)] = 1 THEN b ELSE Strip(SubSeq(b, 1, Len(b) - 1))

RECURSIVE MulBits(_, _, _)
MulBits(b, n, carry) ==
  IF b = <<>> THEN ToBits(carry)
  ELSE LET v == Head(b) * n + carry
       IN <<v % 2>> \o MulBits(Tail(b), n, v \div 2)

RECURSIVE IncBits(_)
IncBits(b) ==
  IF b = <<>> THEN <<1>>
  ELSE IF Head(b) = 0 THEN <<1>> \o Tail(b)
  ELSE <<0>> \o IncBits(Tail(b))

\* The product of two doubles is the exact product rounded to DoubleBits
\* significant bits, a tie going to the even neighbour: b is the exact
\* product, the result is [bits, shift] for bits * 2^shift.
RoundDouble(b) ==
  LET p == Strip(b)
      d == Len(p) - DoubleBits
  IN IF d <= 0 THEN [bits |-> p, shift |-> 0]
     ELSE LET kept == SubSeq(p, d + 1, Len(p))
              sticky == \E i \in 1..(d - 1) : p[i] = 1
              up == p[d] = 1 /\ (sticky \/ kept[1] = 1)
          IN [bits |-> IF up THEN IncBits(kept) ELSE kept, shift |-> d]

\* 2.55*level in double arithmetic, as a multiple of 2^-FracBits.
Times255(level) ==
  LET r == RoundDouble(MulBits(Reverse(Bits255), level, 0))
  IN [i \in 1..r.shift |-> 0] \o r.bits

\* int(round(x)) for x >= 0 given as a multiple of 2^-FracBits: a half or
\* more goes up.
IntRound(b) ==
  LET whole == IF Len(b) > FracBits
               THEN FromBits(SubSeq(b, FracBits + 1, Len(b))) ELSE 0
      half == Len(b) >= FracBits /\ b[FracBits] = 1
  IN IF half THEN whole + 1 ELSE whole

\* Line 824: int(round(2.55*level)).
PercentToLevel(level) == IntRound(Times255(level))



\* Lines 822-828: the direct level and the command of setLevel(address,
\* level, usePercent), or the error it returns.
LevelOf(level, usePercent) ==
  IF usePercent
  THEN IF level \in 0..100
       THEN [ok |-> TRUE, level |-> PercentToLevel(level), err |-> ""]
       ELSE [ok |-> FALSE, level |-> level,
             err |-> "Percent level must be 0-100"]
  ELSE IF level \in 0..255
       THEN [ok |-> TRUE, level |-> level, err |-> ""]
       ELSE [ok |-> FALSE, level |-> level,
             err |-> "Direct level must be 0-255"]

CommandOf(level) == IF level = 0 THEN cmdOFF ELSE cmdON

\* setLevel(address, level, usePercent, update) has been called.
setLevel(address, level, usePercent, update) ==
  [pc |-> "call", address |-> address, arg |-> level,
   usePercent |-> usePercent, update |-> update, level |-> level,
   command |-> 0, status |-> "none"]

levelRest == <<stdcall, rst, ee, dev, lt, del, events, timer_threads, now, closer,
               sched, invoked, async_callbacks, disp>>

\* Lines 822-829 up to the point where send_msg waits for the echo; an
\* argument out of range or an address that is no address ends the call.
LevelCall ==
  /\ lvl.pc = "call"
  /\ LET c == LevelOf(lvl.arg, lvl.usePercent)
         a == address_to_list(lvl.address)
     IN IF ~c.ok
        THEN /\ lvl' = [lvl EXCEPT !.pc = "done", !.status = c.err]
             /\ UNCHANGED coreVars
        ELSE IF ~a.ok
        THEN /\ lvl' = [lvl EXCEPT !.pc = "done", !.level = c.level,
                                   !.command = CommandOf(c.level),
                                   !.status = "Invalid address"]
             /\ UNCHANGED coreVars
        ELSE /\ lvl' = [lvl EXCEPT !.pc = "sent", !.level = c.level,
                                   !.command = CommandOf(c.level)]
             /\ CallCore("host", sendStdMessage(a.list, CommandOf(c.level),
                                                c.level, 15))
  /\ UNCHANGED <<levelRest, registry>>

\* A setLevel that takes every list for success.
LastIsAnyList(r, level) == r.kind = "list"

\* Python's status[-1] == level for what send_msg returned: the last
\* character of an error string is no level.
LastIs(r, level) ==
  r.kind = "list" /\ r.msg /= <<>> /\ r.msg[Len(r.msg)] = level

\* Lines 830-833: send_msg has returned.
LevelReturn ==
  /\ lvl.pc = "sent"
  /\ pc["host"] = "done"
  /\ LET r == ret["host"]
     IN IF LastIs(r, lvl.level)
        THEN /\ lvl' = [lvl EXCEPT !.pc = "done", !.status = "OK"]
             /\ registry' = IF lvl.update
                            THEN updateLevel(registry, lvl.address, lvl.level)
                            ELSE registry
        ELSE /\ lvl' = [lvl EXCEPT !.pc = "done",
                                   !.status = IF r.kind = "list" THEN "list"
                                              ELSE r.err]
             /\ UNCHANGED registry
  /\ UNCHANGED <<coreVars, levelRest>>

LevelAddresses == {AddrA, AddrB, <<66, 34>>}
LevelArgs == {0, 50, 101, 128, 256}

InitLevel ==
  /\ InitCore
  /\ stdcall = NoStdCall /\ rst = NoResets /\ ee = NoEE /\ dev = NoDevice
  /\ lt = NoLinkCall /\ del = NoLinkCall
  /\ events = <<>> /\ timer_threads = <<>> /\ now = 0
  /\ closer = NoClose /\ sched = NoSched /\ invoked = <<>>
  /\ async_callbacks = <<>> /\ disp = NoLocals
  /\ registry \in {NoFile, OneDevice}
  /\ \E address \in LevelAddresses : \E level \in LevelArgs :
       \E usePercent \in BOOLEAN : \E update \in BOOLEAN :
         lvl = setLevel(address, level, usePercent, update)

NextLevel ==
  \/ LevelCall
  \/ LevelReturn
  \/ Step("host")
  \/ Gateway
  \/ Reader

SpecLevel == InitLevel /\ [][NextLevel]_vars

\* send_msg went the whole way for the call: the echo matched, the gateway
\* acknowledged, and the response that came back ends with the level.
LevelSuccess ==
  /\ lvl.pc = "done"
  /\ Succeeded("host")
  /\ LastIs(ret["host"], lvl.level)

\* C18: setLevel(address, 50) in percent mode computes the direct level
\* 128 and sends a standard ON with cmd2 128; when send_msg goes the whole
\* way it returns 'OK' and, updating a device file that lists the address,
\* leaves 128 as the level of the address.
C18_FiftyPercentIs128 ==
  (lvl.pc \in {"sent", "done"} /\ lvl.usePercent /\ lvl.arg = 50) =>
    /\ lvl.level = 128
    /\ lvl.pc = "sent" =>
         message["host"] = <<START, insteonSend>> \o lvl.address
                             \o <<15, cmdON, 128>>
    /\ LevelSuccess =>
         /\ lvl.status = "OK"
         /\ (lvl.update /\ registry.file /\
             getIndexByAddress(registry, lvl.address) /= 0) =>
              registry.level[getIndexByAddress(registry, lvl.address)] = 128


(* ------------------------------------------------------------------ *)
(* Listeners                                                            *)
(* ------------------------------------------------------------------ *)
MaxListeners == 2

\* The events a listener is registered with: each of the three filters is
\* None or a value.
Filters ==
  {[LightingEvent("trigger", 0) EXCEPT !.from_address = a, !.from_cmd = c,
                                       !.from_button = b] :
     a \in {NoAddr, AddrA}, c \in {NoByte, cmdON}, b \in {NoByte, 1}}

\* register_callback(func, event) for a function of the caller: without an
\* event (filtered = FALSE) or with one, with one argument or two.
Register(args, filtered, event) ==
  /\ sched.calls < MaxListeners
  /\ LET r == IF filtered
              THEN register_callback("callback", args, Len(events) + 1,
                                     <<event>>)
              ELSE register_callback("callback", args, 0, <<>>)
     IN /\ events' = events \o r.events
        /\ async_callbacks' = async_callbacks \o r.listeners
        /\ sched' = [op |-> "register_callback", ret |-> r.ret,
                     calls |-> sched.calls + 1, armed |-> 0,
                     registered |-> Len(r.listeners)]
  /\ UNCHANGED <<schedRest, timer_threads, now, closer, invoked, disp>>

\* Frames from the device AddrA: a group broadcast, a direct message, the
\* acknowledgement of a group message, a group cleanup; an X10 frame; the
\* late echo of a gateway command, which has no flags byte.
DirectFrom(a, flags) ==
  <<START, insteonRecv>> \o a \o PlmAddr \o <<flags, cmdON, 1>>

DispFrames ==
  {BroadcastFrom(AddrA), DirectFrom(AddrA, 15), DirectFrom(AddrA, 235),
   DirectFrom(AddrA, 65), X10Frame, <<START, LED_on, ACK>>}

InitDisp ==
  /\ InitCore
  /\ InitApp

NextDisp ==
  \/ \E args \in {1, 2} : \E filtered \in BOOLEAN : \E event \in Filters :
       Register(args, filtered, event)
  \/ \E f \in DispFrames : Arrive(f)
  \/ Dispatch

SpecDisp == InitDisp /\ [][NextDisp]_vars

\* The top nibble of a flags byte.
TopNibble(flags) == (flags \div 16) * 16

\* The frame has a flags byte (where a standard or extended frame from a
\* device has it).
HasFlags(d) == Len(d) >= 9 /\ d[2] /= x10Recv

CallbacksInvoked == {j \in DOMAIN invoked : invoked[j].what = "callback"}

\* C19 as claimed: a listener's callback, registered with a filter or
\* without one, is invoked only for a frame whose flags have the top nibble
\* 0xC0.
C19_ListenersSeeGroupOnly ==
  \A j \in CallbacksInvoked :
    /\ HasFlags(invoked[j].msg)
    /\ TopNibble(invoked[j].msg[9]) = GroupBroadcast

\* C19: the callback of a listener registered with a filter is not invoked
\* for a frame whose flags byte has a top nibble other than 0xC0.
C19_FilteredSeeGroupOnly ==
  \A j \in CallbacksInvoked :
    (invoked[j].event /= 0 /\ HasFlags(invoked[j].msg)) =>
      TopNibble(invoked[j].msg[9]) = GroupBroadcast

\* A listener without filter was called with a direct frame and a listener
\* with a filter was called with a group broadcast.
C19_Witness ==
  /\ \E j \in CallbacksInvoked :
       /\ invoked[j].event = 0
       /\ invoked[j].msg = DirectFrom(AddrA, 15)
  /\ \E j \in CallbacksInvoked :
       /\ invoked[j].event /= 0
       /\ invoked[j].msg = BroadcastFrom(AddrA)

(* ------------------------------------------------------------------ *)
(* A device event during a transaction                                  *)
(* ------------------------------------------------------------------ *)
\* A device other than the target of the host's command.
Foreign == BroadcastFrom(AddrB)

\* The host sends one command to the device AddrA; the gateway echoes it
\* with an acknowledgement and the device answers; a group broadcast of
\* another device may arrive at any point of the transaction.  Every frame
\* arrives whole, so the reader never sees a silent interval inside one.
NextEvent ==
  \/ calls = 0 /\ Call("host", sendStdMessage(AddrA, cmdON, 128, 15))
  \/ EchoGet("host")
  \/ EchoTimeout("host")
  \/ SendCheck("host")
  \/ RespGet("host")
  \/ RespTimeout("host")
  \/ GwAnswer("ack")
  \/ GwRespond(FALSE)
  \/ GwUnsolicited(Foreign)
  \/ RxRead

SpecEvent == Init /\ [][NextEvent]_vars

\* send_msg blocks in recv_q.get (lines 471 and 498).
Waiting(c) == pc[c] \in {"echo", "resp"}

\* C21: a group broadcast of another device that arrives during a
\* transaction is put on the event queue only, and the transaction's echo
\* and response still reach the waiter: once the gateway and the device
\* have answered and the reader has read it all, a waiting send_msg finds
\* a frame on the answer queue.
C21_EventLeavesRequest ==
  /\ (routed.valid /\ routed.frame = Foreign) => (OnAsync /\ NotOnRecv)
  /\ (Waiting("host") /\ Answered /\ data = <<>>) => recv_q /= <<>>

(* ------------------------------------------------------------------ *)
(* The pending request across a reset                                   *)
(* ------------------------------------------------------------------ *)
\* The reader or the caller has reset since the host's command was sent
\* and the host, the only caller, has sent nothing since.
ResetInCall(c) == ~Idle(c) /\ rcount[c] >= 1

\* C22: a direct or extended-direct frame completed after a reset, before
\* a new command has queued an expectation, is put on the event queue and
\* not on the answer queue, whatever its address.
C22_ResetClearsRequest ==
  (routed.valid /\ IsDirectType(routed.frame) /\ ResetInCall("host"))
    => (OnAsync /\ NotOnRecv)

\* A frame whose type is neither direct nor extended-direct completed.
OtherTypeRouted == routed.valid /\ ~IsDirectType(routed.frame)

\* C23: a completed frame of another type than direct and extended-direct
\* is put on the answer queue (only) when a pending request is bound, and
\* is not put on the answer queue when none is.
C23_OtherTypeToWaiterOrDropped ==
  OtherTypeRouted =>
    IF routed.pend /= "unbound"
    THEN OnRecv /\ NotOnAsync
    ELSE NotOnRecv

(* ------------------------------------------------------------------ *)
(* Silent intervals                                                     *)
(* ------------------------------------------------------------------ *)
\* The reader resets: every reset of a caller ends the caller's call.
ReaderResets == num_resets' = num_resets + 1 /\ pc' = pc

\* C24: with a partial frame buffered, the reader does not reset on the
\* first read that yields nothing after a byte, only on the second in a
\* row.
C24_ResetOnSecondSilence == [][ReaderResets => silent >= 1]_vars

(* ------------------------------------------------------------------ *)
(* Frame lengths                                                        *)
(* ------------------------------------------------------------------ *)
\* The reader is between two frames; no call or one call is in flight; the
\* line carries two well-formed frames of table types, one after the other.
InitPair ==
  /\ InitReader \/ InitReaderReset
  /\ InitRest
  /\ InitCallers \/ \E a \in CallsOf("host") : InitInFlight(a)
  /\ InitApp
  /\ \E t \in TableTypes : \E f \in PayloadBytes :
       \E u \in TableTypes : \E g \in PayloadBytes :
         /\ input = [stray |-> <<>>, frame |-> Frame(t, f),
                     next |-> Frame(u, g)]
         /\ wire = Frame(t, f) \o Frame(u, g)

SpecPair == InitPair /\ [][RxRead]_vars

\* The total length of a complete frame d of a table type.
LenOf(d) == TotalLen(d[2], FlagsOf(d))

\* C25: a frame of a table type completes at the table length of its type,
\* whatever length a popped expectation carried, and a frame of the
\* variable-length type at the length its flags byte selects (23 or 9):
\* of two frames that arrive one after the other the reader completes the
\* first with the second still unread and then the second, each with all
\* of its bytes and no other, and the length it expects is then the length
\* of that frame.
C25_TableLengthFrames ==
  /\ routed.valid =>
       /\ data = <<>>
       /\ expected_len = LenOf(routed.frame)
       /\ Len(routed.frame) = expected_len
       /\ \/ routed.frame = input.frame /\ wire = input.next
          \/ routed.frame = input.next /\ wire = <<>>
  /\ wire = <<>> => (routed.valid /\ routed.frame = input.next)

\* An extended (23-byte) frame of the variable-length type was completed
\* with an expectation of another length popped, and the short (9-byte)
\* frame that followed it was completed after it.
C25_Witness ==
  /\ wire = <<>>
  /\ input.frame[2] = insteonSend /\ Len(input.frame) = 23
  /\ input.next[2] = insteonSend /\ Len(input.next) = 9
  /\ callid["host"] = 1 /\ message["host"] = <<START, LED_on>>
  /\ routed.valid /\ routed.frame = input.next
  /\ \E i \in 1..Len(recv_q) : recv_q[i].msg = input.frame

\* Gateway frame types that response_len does not list: an ALL-Link
\* cleanup report, the echoes of 'start ALL-Linking', 'LED on' and 'get
\* configuration'.
UnknownTypes == {88, 100, LED_on, 115}

\* More bytes than the longest length the reader can expect.
StreamLen == 25

\* The reader is between two frames; no call or one call is in flight; the
\* line carries a frame of a type that is not in the table, followed by
\* bytes that start no frame.
InitUnknown ==
  /\ InitReader \/ InitReaderReset
  /\ InitRest
  /\ InitCallers \/ \E a \in CallsOf("host") : InitInFlight(a)
  /\ InitApp
  /\ \E t \in UnknownTypes : \E f \in StrayBytes :
       /\ input = [stray |-> <<>>,
                   frame |-> <<START, t>> \o [i \in 1..(StreamLen - 2) |-> f],
                   left |-> expected_len]
       /\ wire = input.frame

SpecUnknown == InitUnknown /\ [][RxRead]_vars

\* The length configured when the type byte of the input arrives: that of
\* the expectation popped at the start marker, else the one left before.
Configured ==
  IF callid["host"] = 1 THEN Len(message["host"]) + 1 ELSE input.left

PyPrefix(d, n) == PySlice(d, 0, n)

\* C26: a frame whose type is not in the length table completes exactly at
\* the length of the expectation popped at its start marker, and with no
\* expectation at the length the previous frame left (11 after a reset):
\* the reader completes the first bytes of the line, as many as that
\* length, and leaves the expected length as it was.
C26_UnknownTypeKeepsLength ==
  routed.valid =>
    /\ routed.frame = PyPrefix(input.frame, Configured)
    /\ Len(routed.frame) = Configured
    /\ expected_len = Configured
    /\ data = <<>>
    /\ Len(wire) = StreamLen - Configured

\* The 3-byte echo of 'LED on' (type 0x6D) was completed at the length of
\* its echo expectation.
C26_Witness ==
  /\ routed.valid
  /\ routed.frame = <<START, LED_on, 0>>
  /\ message["host"] = <<START, LED_on>>
  /\ input.left = ResetLen

(* ------------------------------------------------------------------ *)
(* reset(), statement by statement                                      *)
(* ------------------------------------------------------------------ *)
\* reset() takes no lock: the reader thread and a caller's thread execute
\* its statements interleaved with each other, and the reader's loop runs
\* while a caller's reset is in progress.
MaxResets == 1

resetFrame ==
  <<gwVars, sp, extra_bytes, extra_bytes_flag, lastExtra, callVars, rcount,
    follow, input, stdcall, ee, dev, lt, del, svcVars>>

ResetAt(c, from, to) ==
  /\ rst[c].at = from
  /\ rst' = [rst EXCEPT ![c].at = to]
  /\ routed' = NoRoute

\* The reader calls reset on a silent interval with a partial frame
\* buffered (line 1700), a caller when its wait on recv_q ran out (lines
\* 474 and 502).
ResetEnter(c) ==
  /\ rst[c].k < MaxResets
  /\ IF c = "reader" THEN wire = <<>> /\ data /= <<>> /\ ~first_timeout
     ELSE recv_q = <<>>
  /\ ResetAt(c, "idle", "data")
  /\ UNCHANGED <<wire, data, first_timeout, silent, expected_len, num_resets,
                 send_q, recv_q, async_q, resetFrame>>

\* Lines 1601-1603.
ResetData(c) ==
  /\ ResetAt(c, "data", "send_q")
  /\ data' = <<>>
  /\ first_timeout' = TRUE
  /\ silent' = 0
  /\ expected_len' = ResetLen
  /\ UNCHANGED <<wire, num_resets, send_q, recv_q, async_q, resetFrame>>

\* Line 1604.
ResetSendQ(c) ==
  /\ ResetAt(c, "send_q", "recv_q")
  /\ send_q' = ClearedQueue(send_q)
  /\ UNCHANGED <<wire, data, first_timeout, silent, expected_len, num_resets,
                 recv_q, async_q, resetFrame>>

\* Line 1605.
ResetRecvQ(c) ==
  /\ ResetAt(c, "recv_q", "async_q")
  /\ recv_q' = ClearedQueue(recv_q)
  /\ UNCHANGED <<wire, data, first_timeout, silent, expected_len, num_resets,
                 send_q, async_q, resetFrame>>

\* Line 1606.
ResetAsyncQ(c) ==
  /\ ResetAt(c, "async_q", "flush")
  /\ async_q' = ClearedQueue(async_q)
  /\ UNCHANGED <<wire, data, first_timeout, silent, expected_len, num_resets,
                 send_q, recv_q, resetFrame>>

\* Lines 1607-1608.
ResetFlush(c) ==
  /\ ResetAt(c, "flush", "load")
  /\ wire' = <<>>
  /\ UNCHANGED <<data, first_timeout, silent, expected_len, num_resets,
                 send_q, recv_q, async_q, resetFrame>>

\* Line 1609, self.num_resets += 1: the attribute is loaded ...
ResetLoad(c) ==
  /\ rst[c].at = "load"
  /\ rst' = [rst EXCEPT ![c].at = "store", ![c].n = num_resets]
  /\ routed' = NoRoute
  /\ UNCHANGED <<wire, data, first_timeout, silent, expected_len, num_resets,
                 send_q, recv_q, async_q, resetFrame>>

Emptied == data = <<>> /\ send_q = <<>> /\ recv_q = <<>> /\ async_q = <<>>

\* ... and the sum is stored; reset returns.
ResetStore(c) ==
  /\ rst[c].at = "store"
  /\ num_resets' = rst[c].n + 1
  /\ rst' = [rst EXCEPT ![c] = [at |-> "idle", n |-> 0, k |-> @.k + 1,
                                clean |-> @.clean /\ Emptied]]
  /\ routed' = NoRoute
  /\ UNCHANGED <<wire, data, first_timeout, silent, expected_len,
                 send_q, recv_q, async_q, resetFrame>>

\* The reader's loop, while the reader is not inside reset.
ReaderLoop ==
  /\ rst["reader"].at = "idle"
  /\ RxRead

\* A device event or a frame cut short arrives.
Arrival == \E f \in {Foreign, Truncated} : GwUnsolicited(f)

NextReset ==
  \/ \E c \in ResetCtx : ResetEnter(c)
  \/ \E c \in ResetCtx : ResetData(c)
  \/ \E c \in ResetCtx : ResetSendQ(c)
  \/ \E c \in ResetCtx : ResetRecvQ(c)
  \/ \E c \in ResetCtx : ResetAsyncQ(c)
  \/ \E c \in ResetCtx : ResetFlush(c)
  \/ \E c \in ResetCtx : ResetLoad(c)
  \/ \E c \in ResetCtx : ResetStore(c)
  \/ ReaderLoop
  \/ Arrival

SpecReset == Init /\ [][NextReset]_vars

NoneResetting == \A c \in ResetCtx : rst[c].at = "idle"

\* C27: every invocation of reset, from the reader or from a caller and
\* also when two overlap, has left the partial-frame buffer and the three
\* queues empty when it returns, and the reset counter is the number of
\* invocations that have returned.
C27_ResetEmptiesAndCounts ==
  /\ \A c \in ResetCtx : rst[c].clean
  /\ NoneResetting => num_resets = rst["reader"].k + rst["caller"].k

(* ------------------------------------------------------------------ *)
(* Expectations and the frames they are for                             *)
(* ------------------------------------------------------------------ *)
\* The device sends the next record frame it owes when it is ready to,
\* whatever line of getLinkTable the caller is at.
DevSendUnasked ==
  /\ wire = <<>> /\ data = <<>>
  /\ dev.owes /= <<>>
  /\ wire' = Head(dev.owes)
  /\ dev' = [dev EXCEPT !.owes = Tail(@)]
  /\ routed' = NoRoute
  /\ UNCHANGED <<gwVars, rxVars, num_resets, rcount, send_q, recv_q, async_q,
                 callVars, follow, input, stdcall, rst, ee, lt, del, svcVars>>

InitRace ==
  /\ InitCore
  /\ stdcall = NoStdCall /\ rst = NoResets /\ ee = NoEE
  /\ InitSvc
  /\ \E mem \in Databases : dev = [NoDevice EXCEPT !.mem = mem]
  /\ del = NoLinkCall
  /\ lt = getLinkTable(AddrA, FALSE, 0)

\* getLinkTable reads the whole link table of a device.
NextRace ==
  \/ LtRequest
  \/ LtPut
  \/ LtGet
  \/ LtTimeout
  \/ DevSendUnasked
  \/ RxRead

SpecRace == InitRace /\ [][NextRace]_vars

\* The first byte of a frame is on the line.
FrameStarts == wire /= <<>> /\ data = <<>>

\* C28: the expectation for a frame a caller waits for is in send_q when
\* the first byte of the frame can reach the reader, and the frame is not
\* classified with no expectation bound: here for the record frames of
\* getLinkTable, the only frames on the line.
C28_ExpectationBeforeFrame ==
  /\ FrameStarts => send_q /= <<>>
  /\ routed.valid => routed.pend /= "unbound"

(* ------------------------------------------------------------------ *)
(* Filters                                                              *)
(* ------------------------------------------------------------------ *)
\* The frame d passes the filters of the listener's event: each filter
\* that is set equals the frame's field, and the frame has a flags byte
\* with the top nibble 0xC0.
Matches(event, d) ==
  /\ event.from_address = NoAddr \/ event.from_address = PySlice(d, 2, 5)
  /\ event.from_cmd = NoByte \/ (Len(d) >= 10 /\ event.from_cmd = d[10])
  /\ event.from_button = NoByte \/ (Len(d) >= 8 /\ event.from_button = d[8])
  /\ HasFlags(d) /\ TopNibble(d[9]) = GroupBroadcast

\* The dispatcher takes the next frame from async_q.
Dispatches == async_q /= <<>> /\ async_q' = Tail(async_q)

\* The listener at place i is invoked in this step.
InvokedNow(i) ==
  \E j \in (Len(invoked) + 1)..Len(invoked') :
    invoked'[j].what = "callback" /\ invoked'[j].listener = i

\* C29: when the dispatcher takes a frame, a listener registered with a
\* filter is invoked if and only if the frame passes its filters: source
\* address, command and button, each matching anything when unset, and the
\* top nibble 0xC0 of the frame's flags.
C29_FilterDecides ==
  [][Dispatches =>
       \A i \in DOMAIN async_callbacks :
         async_callbacks[i].event /= 0 =>
           (InvokedNow(i) <=>
              Matches(events[async_callbacks[i].event], Head(async_q).msg))]_vars

(* ------------------------------------------------------------------ *)
(* The device file follows the events                                   *)
(* ------------------------------------------------------------------ *)
AddrC == <<66, 48, 16>>

\* The buttons of the device AddrA that a device of the file may answer.
Buttons == {<<AddrA, 1>>, <<AddrA, 2>>}

\* Device files: the keypad AddrA and two devices, each a dimmer or a
\* relay-only device and a responder to any of the keypad's buttons 1 and
\* 2, all at level 77; and no device file.
DeviceFiles ==
  {[file |-> TRUE, address |-> <<AddrA, AddrB, AddrC>>,
    devType |-> <<"KeypadLinc", tb, tc>>,
    respondsToBtn |-> <<{}, rb, rc>>, level |-> <<77, 77, 77>>] :
     tb \in {"Dimmer", "GarageIO"}, tc \in {"Dimmer", "GarageIO"},
     rb \in SUBSET Buttons, rc \in SUBSET Buttons}
  \cup {NoFile}

\* A standard frame from the device a to the group btn.
GroupFrame(a, btn, flags, cmd1) ==
  <<START, insteonRecv>> \o a \o <<0, 0, btn, flags, cmd1, 0>>

\* Frames of the keypad: group broadcasts (flags 0xCB), direct frames
\* (0x0F) and group cleanups (0x41) with the commands ON, OFF, stopChange
\* and brighten (0x15); an X10 frame.
EventFrames ==
  {GroupFrame(AddrA, b, fl, c) :
     b \in {1, 2}, fl \in {203, 15, 65}, c \in {cmdON, cmdOFF, stopChange, 21}}
  \cup {X10Frame}

InitParse ==
  /\ InitCore
  /\ stdcall = NoStdCall /\ rst = NoResets /\ ee = NoEE /\ dev = NoDevice
  /\ lt = NoLinkCall /\ del = NoLinkCall
  /\ events = <<>> /\ timer_threads = <<>> /\ now = 0
  /\ closer = NoClose /\ sched = NoSched /\ invoked = <<>>
  /\ async_callbacks = <<>> /\ disp = NoLocals
  /\ lvl = NoLinkCall
  /\ registry \in DeviceFiles

NextParse ==
  \/ \E f \in EventFrames : Arrive(f)
  \/ Dispatch

SpecParse == InitParse /\ [][NextParse]_vars

\* The status queries sent in this step, and those sent to the address a.
NewQueries ==
  {j \in (Len(invoked) + 1)..Len(invoked') : invoked'[j].what = "getLevel"}
QueriesTo(a) == {j \in NewQueries : invoked'[j].msg = a}

\* The frame d has a flags byte with the top nibble 0xC0 and the command
\* ON, OFF or stop-fade.
IsGroupSwitch(d) ==
  /\ HasFlags(d) /\ Len(d) >= 10
  /\ TopNibble(d[9]) = GroupBroadcast
  /\ d[10] \in {cmdON, cmdOFF, stopChange}

\* The devices of the file registered as responders to the source and the
\* button of the frame d.
Responders(d) ==
  {i \in DOMAIN registry.address :
     <<PySlice(d, 2, 5), d[8]>> \in registry.respondsToBtn[i]}

\* C30: when the dispatcher takes a group broadcast with the command ON,
\* OFF or stop-fade, each registered responder to the frame's source and
\* button that is relay-only (GarageIO) has its level set from the command
\* (255 for ON, 0 for OFF) and is sent no status query, and each other
\* registered responder is sent exactly one status query and its level is
\* what the query returned; when it takes any other frame the device file
\* stays as it is and no status query is sent.
C30_MirrorFollowsEvents ==
  [][Dispatches =>
       LET d == Head(async_q).msg
       IN IF IsGroupSwitch(d)
          THEN \A i \in Responders(d) :
                 IF registry.devType[i] = "GarageIO"
                 THEN /\ QueriesTo(registry.address[i]) = {}
                      /\ d[10] = cmdON => registry'.level[i] = 255
                      /\ d[10] = cmdOFF => registry'.level[i] = 0
                 ELSE /\ Cardinality(QueriesTo(registry.address[i])) = 1
                      /\ \A j \in QueriesTo(registry.address[i]) :
                           registry'.level[i] =
                             IF invoked'[j].wrote = NoByte
                             THEN registry.level[i] ELSE invoked'[j].wrote
          ELSE registry' = registry /\ NewQueries = {}]_vars

\* After a group broadcast ON of the keypad's button 1 the dimmer AddrB
\* that responds to it was queried and is at the level it reported, and
\* the relay-only device AddrC that responds to it is at 255 and was not
\* queried.
C30_Witness ==
  /\ registry.file
  /\ registry.devType = <<"KeypadLinc", "Dimmer", "GarageIO">>
  /\ <<AddrA, 1>> \in registry.respondsToBtn[2]
  /\ <<AddrA, 1>> \in registry.respondsToBtn[3]
  /\ registry.level[2] = 200 /\ registry.level[3] = 255
  /\ \E j \in DOMAIN invoked :
       invoked[j].what = "getLevel" /\ invoked[j].msg = AddrB
         /\ invoked[j].wrote = 200
  /\ \A j \in DOMAIN invoked : invoked[j].msg /= AddrC

(* ------------------------------------------------------------------ *)
(* Re-arming and the action                                             *)
(* ------------------------------------------------------------------ *)
\* The thread of timer i goes from timer_handler to action_handler (line
\* 1260).
InvokesAction(i) ==
  /\ timer_threads[i].st = "action"
  /\ timer_threads'[i].st = "done"
  /\ Len(invoked') = Len(invoked) + 1

\* The timers started for the event of timer i when timer i fired.
Successors(i) ==
  {j \in DOMAIN timer_threads :
     /\ j > i
     /\ timer_threads[j].event = timer_threads[i].event
     /\ timer_threads[j].function = "timer_handler"
     /\ timer_threads[j].started = timer_threads[i].firedAt}

\* The count of the event of timer i has reached zero.
CountAtZero(i) ==
  LET remaining == events[timer_threads[i].event].events_remaining
  IN remaining.int /\ remaining.n = 0

\* C31: when the timer of an interval or daily event has fired and the
\* event's action is invoked, the next timer of the event is already in
\* the timer collection if the count has not reached zero, and no timer
\* was started for the event if it has.
C31_RearmsBeforeAction ==
  [][\A i \in DOMAIN timer_threads :
       InvokesAction(i) =>
         IF CountAtZero(i) THEN Successors(i) = {}
         ELSE Cardinality(Successors(i)) = 1]_vars

\* An interval event created with the count 2 had its action invoked
\* twice: after the first firing with the second timer started, after the
\* second firing with no timer started.
C31_Witness ==
  \E k \in CountedEvents :
    /\ events[k].num_events.n = 2
    /\ events[k].events_remaining = PyInt(0)
    /\ ActionsOf(k) = 2
    /\ Cardinality(TimersOf(k, {"done"})) = 2
    /\ TimersOf(k, {"armed", "fired", "action", "cancelled"}) = {}

(* ------------------------------------------------------------------ *)
(* The legacy link scan: getLinkTable_old                               *)
(* ------------------------------------------------------------------ *)
MaxReadFails == 2
PageRecords == 32
FirstLSB == 248
InUse == 226

\* The record at place r (0 is the one at 0x0FF8) of a device whose first
\* n records are in use: the flag byte, the group, the linked address and
\* three data bytes, the last of them 0.
Record(r, n) ==
  <<IF r < n THEN InUse ELSE 0, r + 1>> \o AddrB \o <<255, 28, 0>>

\* The byte at the low address a of the page 0x0F.
Peek(a, n) == Record((PageRecords - 1) - (a \div 8), n)[(a % 8) + 1]

\* What readEEPROM(addr, LSB, num_tries) gives (lines 659-667), taken as
\* one step: the byte, or the string of a read that failed; a negative
\* LSB is not a byte and str(bytearray(message)) raises ValueError (line
\* 468).
ReadResults(LSB, n, fails) ==
  IF LSB < 0 THEN {[kind |-> "ValueError", byte |-> NoByte]}
  ELSE {[kind |-> "byte", byte |-> Peek(LSB, n)]}
       \cup (IF fails < MaxReadFails
             THEN {[kind |-> "str", byte |-> NoByte]} ELSE {})

\* One read of the scan, for the record of what it did.
Read(LSB, r) == [LSB |-> LSB, kind |-> r.kind, byte |-> r.byte]

Failures(log) == Cardinality({j \in DOMAIN log : log[j].kind = "str"})

\* Lines 769-777: setMSB(addr, 0x0F), and the scan's locals.
ScanStart ==
  /\ ee.op = "none"
  /\ \E n \in 0..PageRecords : \E status \in {"OK", "NACK"} :
       ee' = [op |-> "getLinkTable_old", n |-> n, status |-> status,
              at |-> IF status = "OK" THEN "flag" ELSE "returned",
              LSB |-> FirstLSB, List |-> <<>>, k |-> 0, totalList |-> <<>>,
              entriesLeft |-> TRUE, log |-> <<>>]
  /\ UNCHANGED <<coreVars, stdcall, rst, dev, lt, del, svcVars>>

\* Lines 778-786: the leading byte of the next record.
ScanFlag ==
  /\ ee.op = "getLinkTable_old" /\ ee.at = "flag"
  /\ \E r \in ReadResults(ee.LSB, ee.n, Failures(ee.log)) :
       ee' = [ee EXCEPT
                !.log = Append(@, Read(ee.LSB, r)),
                !.entriesLeft = r.kind = "byte" /\ r.byte /= 0,
                !.List = IF r.kind = "byte" /\ r.byte /= 0
                         THEN <<r.byte>> ELSE @,
                !.k = 0,
                !.at = CASE r.kind = "ValueError" -> "raised"
                         [] r.kind = "byte" /\ r.byte /= 0 -> "rest"
                         [] OTHER -> "returned"]
  /\ UNCHANGED <<coreVars, stdcall, rst, dev, lt, del, svcVars>>

\* Lines 787-794: one turn of the loop over the other seven bytes.
ScanByte ==
  /\ ee.op = "getLinkTable_old" /\ ee.at = "rest" /\ ee.k < 7
  /\ \E r \in ReadResults(ee.LSB + 1, ee.n, Failures(ee.log)) :
       ee' = [ee EXCEPT
                !.LSB = @ + 1,
                !.k = @ + 1,
                !.log = Append(@, Read(ee.LSB + 1, r)),
                !.entriesLeft = IF r.kind = "str" THEN FALSE ELSE @,
                !.List = IF r.kind = "str" THEN @ ELSE Append(@, r.byte)]
  /\ UNCHANGED <<coreVars, stdcall, rst, dev, lt, del, svcVars>>

\* Lines 796-802 (record is None): the record is added to the result.
ScanRecord ==
  /\ ee.op = "getLinkTable_old" /\ ee.at = "rest" /\ ee.k = 7
  /\ ee' = [ee EXCEPT
              !.totalList = Append(@, ee.List),
              !.LSB = @ - 15,
              !.at = IF ee.entriesLeft THEN "flag" ELSE "returned"]
  /\ UNCHANGED <<coreVars, stdcall, rst, dev, lt, del, svcVars>>

NextScan == ScanStart \/ ScanFlag \/ ScanByte \/ ScanRecord

SpecScan == Init /\ [][NextScan]_vars

\* The reads of the scan that gave a byte.
BytesRead(log) == Cardinality({j \in DOMAIN log : log[j].kind = "byte"})

\* The read at place j of the scan is the last one.
LastRead(j) == j = Len(ee.log)

\* C32: the legacy scan reads the bytes of consecutive 8-byte records,
\* the records at descending addresses from 0xF8; its first read error
\* and its first zero flag byte are its last read; it returns (no
\* exception leaves it) the complete records read until then, each of 8
\* bytes, in the order read.
C32_LegacyScanCompleteRecords ==
  ee.op = "getLinkTable_old" =>
    /\ ee.at /= "raised"
    /\ \A j \in DOMAIN ee.log :
         /\ ee.log[j].LSB = FirstLSB - 8 * ((j - 1) \div 8) + ((j - 1) % 8)
         /\ ee.log[j].kind = "str" => LastRead(j)
         /\ (j % 8 = 1 /\ ee.log[j].byte = 0) => LastRead(j)
    /\ (ee.at = "returned" /\ ee.status = "OK") =>
         /\ Len(ee.totalList) = BytesRead(ee.log) \div 8
         /\ \A i \in DOMAIN ee.totalList :
              ee.totalList[i] = Record(i - 1, ee.n)

(* ------------------------------------------------------------------ *)
(* Link creation: createLink                                            *)
(* ------------------------------------------------------------------ *)
KeypadLinc == 27
SwitchLinc == 21
CtrlFlag == 226
RespFlag == 162

\* What getDevCat gives as the subtype (lines 635-651): a subtype, or None
\* when the device did not answer.
Subtypes == {KeypadLinc, SwitchLinc, NoByte}

\* The button arguments: None, or a button number.
ButtonArgs == {NoByte, 1, 2}

\* Lines 1024-1045: the group and the button of the controller's record
\* and of the responder's record.
LinkRoles(ctrl_is_keypad, resp_is_keypad, ctrl_button, resp_button) ==
  [ctrl_group |-> IF ctrl_is_keypad THEN ctrl_button ELSE 1,
   ctrl_button |-> IF ctrl_is_keypad THEN ctrl_button ELSE 0,
   resp_group |-> IF resp_is_keypad
                  THEN (IF ctrl_is_keypad THEN resp_button ELSE 1)
                  ELSE (IF ctrl_is_keypad THEN ctrl_button ELSE 1),
   resp_button |-> IF resp_is_keypad THEN resp_button ELSE 0]

\* Lines 1047 and 1055: the two records.
LinkRecords(ctrl_addr, resp_addr, roles) ==
  [ctrl |-> <<CtrlFlag, roles.ctrl_group>> \o resp_addr
              \o <<255, 28, roles.ctrl_button>>,
   resp |-> <<RespFlag, roles.resp_group>> \o ctrl_addr
              \o <<255, 28, roles.resp_button>>]

\* createLink(ctrl_addr, resp_addr, ctrl_button, resp_button) is called;
\* lines 969-970.
LinkStart ==
  /\ ee.op = "none"
  /\ \E cb \in ButtonArgs : \E rb \in ButtonArgs :
       ee' = [op |-> "createLink", at |-> "devcat",
              ctrl_addr |-> AddrA, resp_addr |-> AddrB,
              ctrl_button |-> cb, resp_button |-> rb,
              ctrl_subtype |-> NoByte, resp_subtype |-> NoByte,
              ctrl_is_keypad |-> FALSE, resp_is_keypad |-> FALSE,
              exc |-> "", ret |-> "", ctrl_rec |-> <<>>, resp_rec |-> <<>>]
  /\ UNCHANGED <<coreVars, stdcall, rst, dev, lt, del, svcVars>>

\* Lines 972-973: the two getDevCat calls, taken as one step with their
\* results.
LinkDevCat ==
  /\ ee.op = "createLink" /\ ee.at = "devcat"
  /\ \E cs \in Subtypes : \E rs \in Subtypes :
       ee' = [ee EXCEPT !.ctrl_subtype = cs, !.resp_subtype = rs,
                        !.at = "roles"]
  /\ UNCHANGED <<coreVars, stdcall, rst, dev, lt, del, svcVars>>

\* Lines 974-994: which side is a keypad; a keypad without a button
\* raises.
LinkKeypads ==
  /\ ee.op = "createLink" /\ ee.at = "roles"
  /\ LET ck == ee.ctrl_subtype = KeypadLinc
         rk == ee.resp_subtype = KeypadLinc
     IN ee' = IF (ck /\ ee.ctrl_button = NoByte) \/
                 (rk /\ ee.resp_button = NoByte)
              THEN [ee EXCEPT !.ctrl_is_keypad = ck, !.at = "raised",
                              !.exc = "Exception"]
              ELSE [ee EXCEPT !.ctrl_is_keypad = ck, !.resp_is_keypad = rk,
                              !.at = "free"]
  /\ UNCHANGED <<coreVars, stdcall, rst, dev, lt, del, svcVars>>

\* Line 997: self.getUnusedLinkAddr(ctrl_addr).  The class has no
\* attribute of that name: the lookup raises AttributeError and the call
\* ends there.
LinkFreeSlot ==
  /\ ee.op = "createLink" /\ ee.at = "free"
  /\ ee' = [ee EXCEPT !.at = "raised", !.exc = "AttributeError"]
  /\ UNCHANGED <<coreVars, stdcall, rst, dev, lt, del, svcVars>>

NextLink == LinkStart \/ LinkDevCat \/ LinkKeypads \/ LinkFreeSlot

SpecCreate == Init /\ [][NextLink]_vars

\* The call is over and each button argument fits its device: a keypad
\* has one, another device has none.
LinkOver ==
  /\ ee.op = "createLink" /\ ee.at \in {"returned", "raised"}
  /\ ee.exc /= "Exception"
  /\ ee.ctrl_is_keypad <=> ee.ctrl_button /= NoByte
  /\ ee.resp_is_keypad <=> ee.resp_button /= NoByte

\* The group and the button a record has by the role of its device.
ByRole(rec, is_keypad, button) ==
  /\ Len(rec) = 8
  /\ IF is_keypad THEN rec[2] = button ELSE rec[2] = 1 /\ rec[8] = 0

\* C33: for every combination of keypad and other controller and
\* responder, createLink has written one 8-byte record to each side: the
\* record of a device that is not a keypad has group 1 and button 0, the
\* record of a keypad has the button given for it as its group, and the two
\* records have the same group.
C33_LinkGroupsByRole ==
  LinkOver =>
    /\ ByRole(ee.ctrl_rec, ee.ctrl_is_keypad, ee.ctrl_button)
    /\ ByRole(ee.resp_rec, ee.resp_is_keypad, ee.resp_button)
    /\ ee.ctrl_rec[2] = ee.resp_rec[2]

(* ------------------------------------------------------------------ *)
(* Retry: readEEPROM and writeEEPROM                                    *)
(* ------------------------------------------------------------------ *)
MaxTries == 3
MaxTransactions == 4

\* The numTries arguments.
TryCounts == -1..MaxTries

\* What sendStdMessage returns when the transaction fails.
FailureWords == {"NACK", "Timeout waiting for echo",
                 "Timeout waiting for response"}

\* The last byte of a response to peekEE.
PeekBytes == {0, InUse, 255}

\* while numTries: (line 660).
ReadGoesOn(numTries) == numTries /= 0

\* while numTries > 0: (line 677).
WriteGoesOn(numTries) == numTries > 0

GoesOn(op, numTries) ==
  IF op = "readEEPROM" THEN ReadGoesOn(numTries) ELSE WriteGoesOn(numTries)

\* readEEPROM(insteonAddr, addrL, numTries) or writeEEPROM(insteonAddr,
\* dataByte, numTries) is called; lines 659 and 675-676.
RetryStart ==
  /\ ee.op = "none"
  /\ \E op \in {"readEEPROM", "writeEEPROM"} : \E n \in TryCounts :
       ee' = [op |-> op, at |-> "loop", nt_orig |-> n, numTries |-> n,
              status |-> "Unknown error", transactions |-> 0, failed |-> 0,
              ret |-> [ok |-> FALSE, byte |-> NoByte, tries |-> 0,
                       status |-> ""]]
  /\ UNCHANGED <<coreVars, stdcall, rst, dev, lt, del, svcVars>>

\* One turn of the loop, lines 661-666 and 678-683: a sendStdMessage
\* transaction, taken as one step with its result; a list ends the call,
\* anything else costs a try and half a second.
RetryTransaction ==
  /\ ee.op \in {"readEEPROM", "writeEEPROM"} /\ ee.at = "loop"
  /\ GoesOn(ee.op, ee.numTries)
  /\ ee.transactions < MaxTransactions
  /\ \/ \E b \in PeekBytes :
          ee' = [ee EXCEPT
                   !.transactions = @ + 1,
                   !.status = "list",
                   !.at = "returned",
                   !.ret = [ok |-> TRUE,
                            byte |-> IF ee.op = "readEEPROM" THEN b
                                     ELSE NoByte,
                            tries |-> 0, status |-> ""]]
     \/ \E w \in FailureWords :
          ee' = [ee EXCEPT
                   !.transactions = @ + 1,
                   !.failed = @ + 1,
                   !.status = w,
                   !.numTries = @ - 1]
  /\ UNCHANGED <<coreVars, stdcall, rst, dev, lt, del, svcVars>>

\* Lines 667 and 684: the loop is over, the failure string is returned
\* (writeEEPROM's carries the last status).
RetryGiveUp ==
  /\ ee.op \in {"readEEPROM", "writeEEPROM"} /\ ee.at = "loop"
  /\ ~GoesOn(ee.op, ee.numTries)
  /\ ee' = [ee EXCEPT
              !.at = "returned",
              !.ret = [ok |-> FALSE, byte |-> NoByte, tries |-> ee.nt_orig,
                       status |-> IF ee.op = "writeEEPROM" THEN ee.status
                                  ELSE ""]]
  /\ UNCHANGED <<coreVars, stdcall, rst, dev, lt, del, svcVars>>

NextRetry == RetryStart \/ RetryTransaction \/ RetryGiveUp

SpecRetry == Init /\ [][NextRetry]_vars

\* The number of transactions a call with numTries = n may make.
Allowed(n) == IF n > 0 THEN n ELSE 0

\* C34: readEEPROM and writeEEPROM called with numTries = n make at most n
\* transactions (none for n <= 0), go on only while every transaction so
\* far has failed, return the success of the first transaction that
\* succeeds, and return a failure once n transactions have failed.
C34_RetryBounded ==
  ee.op \in {"readEEPROM", "writeEEPROM"} =>
    /\ ee.transactions <= Allowed(ee.nt_orig)
    /\ ee.at = "loop" => ee.failed = ee.transactions
    /\ (ee.at = "returned" /\ ee.ret.ok) =>
         ee.transactions = ee.failed + 1
    /\ (ee.at = "returned" /\ ~ee.ret.ok) =>
         ee.failed = Allowed(ee.nt_orig)

(* ------------------------------------------------------------------ *)
(* A link-table read that ends by the timeout                           *)
(* ------------------------------------------------------------------ *)
\* getLinkTable(address) has returned and the last frame it took, if it
\* took one, carried a record in use: the loop ended at line 730.
LtTimedOut ==
  /\ lt.pc = "done" /\ ~lt.hasRecord
  /\ del.pc \in {"none", "table"}
  /\ lt.d = <<>> \/ lt.d[17] /= 0

\* The records the call received: those in use up to the one the last
\* frame carried.
LtReceived ==
  IF lt.d = <<>> THEN <<>>
  ELSE LET used == Used(dev.mem)
           last == CHOOSE k \in DOMAIN used : used[k] = PySlice(lt.d, 16, 24)
       IN SubSeq(used, 1, last)

\* C35: a getLinkTable whose stream of records ends by the 8-second
\* timeout returns the records it received, each once, in the order of
\* arrival, and leaves send_q empty.
C35_TimeoutKeepsRecordsOnce ==
  LtTimedOut => lt.links = LtReceived /\ send_q = <<>>

(* ------------------------------------------------------------------ *)
(* Group broadcasts: sendGroupCmd                                       *)
(* ------------------------------------------------------------------ *)
GroupFlags == 207
Groups == {1, 2}

\* sendGroupCmd(groupNum, cmd), line 703: the arguments of its send_msg.
sendGroupCmd(groupNum, cmd) ==
  [sendStdMessage(<<0, 0, groupNum>>, cmd, 0, GroupFlags)
     EXCEPT !.via = "sendGroupCmd"]

\* A sendGroupCmd that looks at the echo's last byte.
sendGroupResultChecked(r) ==
  IF r.kind = "list" /\ r.msg[Len(r.msg)] = ACK THEN "OK"
  ELSE IF r.kind = "list" THEN "NACK" ELSE r.err

\* What sendGroupCmd returns when send_msg has returned r (lines 704-707).
sendGroupResult(r) == IF r.kind = "list" THEN "OK" ELSE r.err

GroupCall ==
  \E g \in Groups : \E cmd \in {cmdON, cmdOFF} :
    Call("host", sendGroupCmd(g, cmd))

NextGroup ==
  \/ GroupCall
  \/ EchoGet("host")
  \/ EchoTimeout("host")
  \/ SendCheck("host")
  \/ \E kind \in {"ack", "nack", "bad", "lost"} : GwAnswer(kind)
  \/ RxRead

SpecGroup == Init /\ [][NextGroup]_vars

\* The echo send_msg returned to the host's sendGroupCmd ends with the byte
\* b.
GroupEchoEnds(b) ==
  /\ Returned("host") /\ via["host"] = "sendGroupCmd"
  /\ ret["host"].kind = "list"
  /\ ret["host"].msg[Len(ret["host"].msg)] = b

\* C36: a sendGroupCmd (expected length 0) returns 'OK' only if the last
\* byte of the echo is ACK, and does not return 'OK' when the gateway
\* answered NACK.
C36_GroupNackNotOK ==
  (Returned("host") /\ via["host"] = "sendGroupCmd"
     /\ sendGroupResult(ret["host"]) = "OK")
    => GroupEchoEnds(ACK)

(* ------------------------------------------------------------------ *)
(* setLevel and the device file                                         *)
(* ------------------------------------------------------------------ *)
\* What send_msg returned to setLevel is a frame whose last byte is the
\* direct level of the call.
EndsWithLevel ==
  /\ ret["host"].kind = "list"
  /\ ret["host"].msg /= <<>>
  /\ ret["host"].msg[Len(ret["host"].msg)] = lvl.level

\* setLevel returned because of its arguments: the level is out of range
\* or the address is no address.
LevelRefused ==
  /\ lvl.pc = "done"
  /\ lvl.status \in {"Percent level must be 0-100",
                     "Direct level must be 0-255", "Invalid address"}

\* C37: when setLevel has returned and send_msg did not return a frame
\* whose last byte is the commanded direct level, the device file is as
\* it was before the call and the call did not return 'OK'; when the level
\* is out of range or the address is no address, no message was written
\* to the gateway and no expectation was queued either.
C37_MirrorOnlyOnSuccess ==
  /\ (lvl.pc = "done" /\ ~EndsWithLevel) =>
       /\ registry \in {NoFile, OneDevice}
       /\ lvl.status /= "OK"
  /\ LevelRefused =>
       /\ ~EndsWithLevel
       /\ calls = 0 /\ send_q = <<>>

\* A setLevel of a device the file lists, with update on, has returned
\* after the device answered with another level than the commanded one,
\* and the file still has the level 0.
C37_Witness ==
  /\ lvl.pc = "done" /\ lvl.update /\ lvl.address = AddrA
  /\ ret["host"].kind = "list" /\ ~EndsWithLevel
  /\ lvl.level /= 0
  /\ registry = OneDevice

(* ------------------------------------------------------------------ *)
(* Deleting a record that is not there                                  *)
(* ------------------------------------------------------------------ *)
\* The number of records in use when deleteLinkRecord was called.
InUseBefore == Len(Used(del.before))

\* deleteLinkRecord has returned after reading the whole table, and the
\* table was empty or the record asked for is not one of its records.
DelNothingToDelete ==
  /\ del.pc = "done" /\ ~dev.lost
  /\ InUseBefore = 0 \/ del.record >= InUseBefore

\* C38: a deleteLinkRecord of an empty table, or of a record index that is
\* not below the number of records in use, writes no record at an index
\* outside those in use and leaves the database as it was.
C38_DeleteStaysInRange ==
  DelNothingToDelete => dev.mem = del.before /\ dev.outside = <<>>

(* ------------------------------------------------------------------ *)
(* Interval events with a count that is not positive                    *)
(* ------------------------------------------------------------------ *)
\* The num_events arguments: integers from -1 on.
AnyCounts == {PyInt(n) : n \in -1..MaxCount}

AddCounted ==
  \E num_events \in AnyCounts : \E action \in {PyStr("toggle"), PyInt(128)} :
    SchedCall("addIntervalEvent",
              addIntervalEvent(5, action, AddrA, num_events,
                               Len(events) + 1, now))

NextCount ==
  \/ AddCounted
  \/ Tick
  \/ \E i \in DOMAIN timer_threads : TimerFire(i)
  \/ \E i \in DOMAIN timer_threads : TimerHandler(i)
  \/ \E i \in DOMAIN timer_threads : TimerAction(i)

\* A timer that is due fires, and its thread runs to its end.
SpecCount == InitSched /\ [][NextCount]_vars /\ WF_vars(NextCount)

\* The interval events created with an integer count of zero or less.
UncountedEvents ==
  {k \in DOMAIN events :
     /\ events[k].type = "interval"
     /\ events[k].num_events.int
     /\ events[k].num_events.n <= 0}

C40_DispatcherSurvivesFrames == disp.alive

====
